---- MODULE Spec2Model ----
(***************************************************************************)
(* Model of src/hooks/useSupabaseData.ts: the useSupabaseData hook over a  *)
(* store holding the songs, history, liked_songs, playlists and users      *)
(* tables.  Every handler is a sequence of steps, one up to each await: a  *)
(* request acts on the store when it is issued, and the handler awaiting   *)
(* it resumes in a later step, so other handlers run between two reads of  *)
(* one call.  The ranking strategies (getSmartPersonalizedSongs,           *)
(* getPersonalizedSongs, fetchPersonalizedSongs) are operators over the    *)
(* store as each of their reads found it.                                  *)
(*                                                                         *)
(* Spec and SpecTags run the strategies and refreshData over drawn         *)
(* stores, SpecBusy runs them while toggleLike changes the store,          *)
(* SpecTracking runs the listening tracker, SpecLikes toggleLike,          *)
(* SpecPlaylists the playlist handlers with toggleLike and refreshData,    *)
(* and SpecSession the load effect with its fetches, refreshData and the   *)
(* logout.                                                                 *)
(*                                                                         *)
(* Units.  Scores are floating point in the source; here they are          *)
(* integers counting thousandths of a point.  minutes_listened is counted  *)
(* in hundredths of a minute (the source rounds to 0.01).  Math.random()   *)
(* is counted in thousandths (0 .. 999).  The clock counts milliseconds.   *)
(* Strings that the source normalises (tags, artists, ids) are sequences   *)
(* of one-character strings, so that toLowerCase, trim, toString and       *)
(* includes are computed and not assumed.                                  *)
(***************************************************************************)
EXTENDS Integers, Sequences, FiniteSets

VARIABLES songsTable, historyTable, likedTable, user, personalizedSongs, ret,
          songs, playlists, likedSongs, lastPlayedSong, recentlyPlayedSongs, loading,
          currentSongStartTime, currentSongRef,
          playlistsTable, usersTable, now, calls, started, refreshed, toggled, handled,
          sentMinutes, currentTime

\* the rest of the hook's state (useState, useRef)
hookVars == <<songs, playlists, likedSongs, lastPlayedSong, recentlyPlayedSongs, loading,
              currentSongStartTime, currentSongRef>>

\* the rest of the store (playlists with their playlist_songs, users), the
\* clock in milliseconds, the handler calls suspended at an await, the
\* number of calls made (started) and, of these, the calls of refreshData, of
\* toggleLike and of the playlist handlers, and per track the hundredths of a
\* minute sent to upsert_history_minutes and the milliseconds it was the
\* current track
envVars == <<playlistsTable, usersTable, now, calls, started, refreshed, toggled, handled,
             sentMinutes, currentTime>>

vars == <<songsTable, historyTable, likedTable, user, personalizedSongs, ret, hookVars, envVars>>

(***************************************************************************)
(* Bounds of the model.                                                    *)
(***************************************************************************)
\* size of the largest catalog drawn (above 30 + the excluded history tracks)
MaxCatalog == 33
\* number of distinct tracks in the longest history drawn (above the limit(10))
MaxHistory == 12
\* period of the Math.random() streams drawn
StreamLen == 2
\* number of tracks the histories of the tag catalog are drawn from
MaxTagTracks == 5
\* the clock stops at this many milliseconds
MaxClock == 13200
\* number of calls of the tracking handlers in one run
MaxCalls == 3
\* number of calls of toggleLike in one run
MaxToggles == 3
\* number of calls of the playlist handlers in one run
MaxPlaylistCalls == 1
\* number of calls of refreshData in one run of the handlers
MaxRefreshes == 1

(***************************************************************************)
(* Program constants.                                                      *)
(***************************************************************************)
SmartTop == 15
ContextTop == 10
HistoryTop == 30
TrendingLimit == 20
HistoryLimit == 10
CommonTagsTop == 5
CommonArtistsTop == 3
SmartTagWeight == 25000
SmartArtistWeight == 30000
SmartLanguageWeight == 15000
SmartLikedBonus == 10000
SmartRandomRange == 2
ContextTagWeight == 15000
ContextArtistWeight == 25000
ContextLanguageWeight == 10000
ContextLikedBonus == 8000
ContextRandomRange == 3
HistoryBoostPerCenti == 20
HistoryBoostCap == 20000
HistoryTagWeight == 20000
HistoryArtistWeight == 25000
HistoryLikedBonus == 10000
HistoryRandomRange == 3

(***************************************************************************)
(* Strings.                                                                *)
(***************************************************************************)
Min(a, b) == IF a <= b THEN a ELSE b

UpperChars == <<"A","B","C","D","E","F","G","H","I","J","K","L","M",
                "N","O","P","Q","R","S","T","U","V","W","X","Y","Z">>
LowerChars == <<"a","b","c","d","e","f","g","h","i","j","k","l","m",
                "n","o","p","q","r","s","t","u","v","w","x","y","z">>

\* String.prototype.toLowerCase, one character
LowerChar(c) ==
    IF \E i \in DOMAIN UpperChars : UpperChars[i] = c
    THEN LowerChars[CHOOSE i \in DOMAIN UpperChars : UpperChars[i] = c]
    ELSE c

\* String.prototype.toLowerCase
ToLowerCase(s) == [i \in DOMAIN s |-> LowerChar(s[i])]

RECURSIVE TrimStart(_)
TrimStart(s) ==
    IF s # <<>> /\ Head(s) = " " THEN TrimStart(Tail(s)) ELSE s

RECURSIVE TrimEnd(_)
TrimEnd(s) ==
    IF s # <<>> /\ s[Len(s)] = " " THEN TrimEnd(SubSeq(s, 1, Len(s) - 1)) ELSE s

\* String.prototype.trim
Trim(s) == TrimEnd(TrimStart(s))

Digits == <<"0","1","2","3","4","5","6","7","8","9">>

\* Number.prototype.toString of a non-negative integer
RECURSIVE ToString(_)
ToString(n) ==
    IF n < 10 THEN <<Digits[n + 1]>>
    ELSE ToString(n \div 10) \o <<Digits[(n % 10) + 1]>>

\* Array.prototype.includes
Includes(seq, x) == \E i \in DOMAIN seq : seq[i] = x

\* Array.prototype.filter
SeqFilter(seq, Keep(_)) == SelectSeq(seq, Keep)

\* Array.prototype.slice(0, n)
Slice(seq, n) == SubSeq(seq, 1, Min(n, Len(seq)))

\* the array with its elements computed once (the same value)
Array(seq) == seq \o <<>>

\* Array.prototype.sort((a, b) => Key(b) - Key(a)): descending and stable, an
\* element goes after the larger keys and after the equal keys that precede it
SortDesc(seq, Key(_)) ==
    LET items == Array(seq)
        keys == Array([i \in DOMAIN items |-> Key(items[i])])
        pos == Array([i \in DOMAIN items |->
                         1 + Cardinality({j \in DOMAIN items : keys[j] > keys[i]})
                           + Cardinality({j \in 1..(i - 1) : keys[j] = keys[i]})])
    IN  [p \in DOMAIN items |-> items[CHOOSE i \in DOMAIN items : pos[i] = p]]

\* Array.prototype.map
SeqMap(seq, F(_)) == [i \in DOMAIN seq |-> F(seq[i])]

\* the set of the elements of an array
Range(seq) == {seq[i] : i \in DOMAIN seq}

\* Math.log(1 + n) in thousandths, rounded, at position n + 1, for n = 0 .. 120
LogTable ==
    << 0, 693, 1099, 1386, 1609, 1792, 1946, 2079, 2197, 2303, 2398,
       2485, 2565, 2639, 2708, 2773, 2833, 2890, 2944, 2996, 3045, 3091,
       3135, 3178, 3219, 3258, 3296, 3332, 3367, 3401, 3434, 3466, 3497,
       3526, 3555, 3584, 3611, 3638, 3664, 3689, 3714, 3738, 3761, 3784,
       3807, 3829, 3850, 3871, 3892, 3912, 3932, 3951, 3970, 3989, 4007,
       4025, 4043, 4060, 4078, 4094, 4111, 4127, 4143, 4159, 4174, 4190,
       4205, 4220, 4234, 4248, 4263, 4277, 4290, 4304, 4317, 4331, 4344,
       4357, 4369, 4382, 4394, 4407, 4419, 4431, 4443, 4454, 4466, 4477,
       4489, 4500, 4511, 4522, 4533, 4543, 4554, 4564, 4575, 4585, 4595,
       4605, 4615, 4625, 4635, 4644, 4654, 4663, 4673, 4682, 4691, 4700,
       4710, 4718, 4727, 4736, 4745, 4754, 4762, 4771, 4779, 4787, 4796 >>

\* Math.log(1 + count) in thousandths, for the counts of likes and views the
\* catalogs hold and the handlers can lead to
LogOnePlus(count) == LogTable[count + 1]

\* the k-th value Math.random() returns during one pass, in thousandths
Random(rnd, k) == rnd[((k - 1) % Len(rnd)) + 1]

(***************************************************************************)
(* The store: the rows of songs, history and liked_songs.                  *)
(***************************************************************************)
\* an optional value: None (null, undefined) or Some(x)
None == <<>>
Some(x) == <<x>>
NULL == "null"

pop == <<"p","o","p">>
Pop == <<"P","o","p">>
rock == <<"r","o","c","k">>
Rock == <<"R","o","c","k">>
jazz == <<"j","a","z","z">>
jazzSp == <<"j","a","z","z"," ">>

\* the rows the catalogs are built from, without their file_id; the first three
\* are the tracks A, B, C of the scenario of the specification
Pool ==
    << [artist |-> <<"X">>, language |-> "en", tags |-> <<pop, rock>>, likes |-> 10, views |-> 100],
       [artist |-> <<"Y">>, language |-> "en", tags |-> <<rock>>, likes |-> 5, views |-> 50],
       [artist |-> <<"Z">>, language |-> "es", tags |-> <<jazz>>, likes |-> 1, views |-> 5],
       [artist |-> <<"x">>, language |-> "en", tags |-> <<Rock, Pop>>, likes |-> 0, views |-> 0],
       [artist |-> <<"Y", " ">>, language |-> "es", tags |-> <<jazzSp, rock, rock>>, likes |-> 5, views |-> 100],
       [artist |-> <<"Z">>, language |-> "fr", tags |-> <<>>, likes |-> 0, views |-> 50] >>

\* a DatabaseSong row
DatabaseSong(file_id, t) ==
    [file_id |-> file_id, artist |-> t.artist, language |-> t.language,
     tags |-> t.tags, likes |-> t.likes, views |-> t.views]

\* the songs table with n rows, file_id 1 .. n, the pool taken from position shift
Catalog(n, shift) ==
    [i \in 1..n |-> DatabaseSong(i, Pool[((i - 1 + shift) % Len(Pool)) + 1])]

CatalogSizes == {0, 1, 3, MaxCatalog}
CatalogShifts == {0, 3}

HistoryRow(u, id, centis) == [user_id |-> u, song_id |-> id, minutes_listened |-> centis]

\* one row per track 1 .. MaxHistory, minutes neither ascending nor descending
LongHistory == [i \in 1..MaxHistory |-> HistoryRow("u1", i, 100 * (((i * 7) % 5) + 1))]

\* the history tables drawn: none, the scenario's (A: 5 minutes), one with
\* several rows for one track and rows of another user, one longer than the limit
Histories ==
    { <<>>,
      <<HistoryRow("u1", 1, 500)>>,
      <<HistoryRow("u1", 1, 500), HistoryRow("u2", 2, 2000), HistoryRow("u1", 2, 100000),
        HistoryRow("u1", 1, 200), HistoryRow("u1", 3, 2000)>>,
      LongHistory }

LikedRow(u, id) == [user_id |-> u, song_id |-> id]

LikedTables == { {}, {LikedRow("u1", 2), LikedRow("u1", 3), LikedRow("u2", 1)} }

\* rows of a table that refer to a song of the catalog (the store's foreign key)
InCatalog(rows, n) == SeqFilter(rows, LAMBDA r : r.song_id <= n)

TypeFail == [read : {"none", "songs", "history", "liked_songs", "users", "playlists"},
             how : {"error", "throw"}]
NoFail == [read |-> "none", how |-> "error"]

\* how the store answers a request: with data, with an error, or the promise
\* of the request is rejected
RequestOutcomes == {"data", "error", "throw"}

\* the outcome of one store read: { data, error }, data null when error is set,
\* or a rejected promise (thrown)
Read(table, rows, fail) ==
    IF fail.read = table THEN [data |-> None, error |-> TRUE, thrown |-> fail.how = "throw"]
    ELSE [data |-> Some(rows), error |-> FALSE, thrown |-> FALSE]

\* the rows of songs, history and liked_songs at this moment: what a read
\* issued now is answered from
Store == [songs |-> songsTable, history |-> historyTable, liked |-> likedTable]

\* the store as the k-th read of a call found it; snaps holds the store at the
\* moment each read made so far was issued
SnapAt(snaps, k) == snaps[IF k <= Len(snaps) THEN k ELSE Len(snaps)]

\* supabase.from('songs').select('*')
SelectSongs(db, fail) == Read("songs", db.songs, fail)

\* supabase.from('liked_songs').select('song_id').eq('user_id', userId)
SelectLiked(db, userId, fail) ==
    Read("liked_songs", {r.song_id : r \in {l \in db.liked : l.user_id = userId}}, fail)

\* supabase.from('history').select('song_id, minutes_listened').eq('user_id', userId)
SelectHistory(db, userId, fail) ==
    Read("history", SeqFilter(db.history, LAMBDA r : r.user_id = userId), fail)

(***************************************************************************)
(* convertDatabaseSong                                                     *)
(***************************************************************************)
convertDatabaseSong(dbSong, isLiked) ==
    [file_id |-> dbSong.file_id, artist |-> dbSong.artist, language |-> dbSong.language,
     tags |-> dbSong.tags, views |-> dbSong.views, likes |-> dbSong.likes,
     id |-> ToString(dbSong.file_id), isLiked |-> isLiked]

\* what a strategy hands back: the store reads it made, the candidates left by
\* its filter, their scores, and the list it returns
Pass(reads, available, scored, value) ==
    [reads |-> reads, availableSongs |-> available, scoredSongs |-> scored, value |-> value,
     returned |-> TRUE]

\* a pass of fetchPersonalizedSongs that ends without calling setPersonalizedSongs
PassUnset(reads) ==
    [reads |-> reads, availableSongs |-> <<>>, scoredSongs |-> <<>>, value |-> <<>>,
     returned |-> FALSE]

\* the Set built from a read's data (empty when the read gave no data)
userLikedSongsOf(likedRead) == IF likedRead.data = None THEN {} ELSE likedRead.data[1]

\* a scored candidate { song, score }; matchingTags (matchingTags.length),
\* listenedMinutes and historyBoost keep the values two terms of the sum had
Scored(song, score, matchingTags, listenedMinutes, historyBoost) ==
    [song |-> song, score |-> score, matchingTags |-> matchingTags,
     listenedMinutes |-> listenedMinutes, historyBoost |-> historyBoost]

\* Math.log(1 + (song.likes || 0)) * 2 + Math.log(1 + (song.views || 0)) * 1
Popularity(song) == LogOnePlus(song.likes) * 2 + LogOnePlus(song.views) * 1

\* Recommend with the comparator's operands swapped: a.score - b.score
RecommendAscending(scoredSongs, n) ==
    SeqMap(Slice(SortDesc(scoredSongs, LAMBDA e : 0 - e.score), n), LAMBDA e : e.song)

\* Recommend that fills a short list up with its best entry
RecommendPadded(scoredSongs, n) ==
    LET top == SeqMap(Slice(SortDesc(scoredSongs, LAMBDA e : e.score), n), LAMBDA e : e.song)
    IN  IF Len(top) < n /\ Len(top) > 0 THEN Append(top, top[1]) ELSE top

\* scoredSongs.sort((a, b) => b.score - a.score).slice(0, n).map(entry => entry.song)
Recommend(scoredSongs, n) ==
    SeqMap(Slice(SortDesc(scoredSongs, LAMBDA e : e.score), n), LAMBDA e : e.song)

(***************************************************************************)
(* getSmartPersonalizedSongs: the session strategy                         *)
(***************************************************************************)
\* preferredTags: the lower-cased tags of the listened songs
SmartPreferredTags(listenedSongsInBatch) ==
    UNION {{ToLowerCase(tag) : tag \in Range(song.tags)} : song \in Range(listenedSongsInBatch)}

\* preferredArtists: the lower-cased artists of the listened songs
SmartPreferredArtists(listenedSongsInBatch) ==
    {ToLowerCase(song.artist) : song \in Range(listenedSongsInBatch)}

\* matchingTags.length of one candidate
SmartMatchingTags(song, preferredTags) ==
    Len(SeqFilter(SeqMap(song.tags, ToLowerCase), LAMBDA tag : tag \in preferredTags))

\* the score of the k-th candidate
SmartScore(song, k, listenedSongsInBatch, userLikedSongs, rnd) ==
    LET listenedLanguages == SeqMap(listenedSongsInBatch, LAMBDA s : s.language)
    IN  SmartMatchingTags(song, SmartPreferredTags(listenedSongsInBatch)) * SmartTagWeight
        + (IF ToLowerCase(song.artist) \in SmartPreferredArtists(listenedSongsInBatch)
           THEN SmartArtistWeight ELSE 0)
        + (IF Includes(listenedLanguages, song.language) THEN SmartLanguageWeight ELSE 0)
        + Popularity(song)
        + (IF song.file_id \in userLikedSongs THEN SmartLikedBonus ELSE 0)
        + Random(rnd, k) * SmartRandomRange

\* availableSongs: the catalog without the excluded ids
SmartAvailable(songsData, excludeSongs) ==
    SeqFilter(songsData, LAMBDA song : ToString(song.file_id) \notin excludeSongs)

\* getSmartPersonalizedSongs after its check of the batch
SmartRanked(snaps, userId, listenedSongsInBatch, excludeSongs, rnd, fail) ==
    LET songsRead == SelectSongs(SnapAt(snaps, 1), fail)
        likedRead == SelectLiked(SnapAt(snaps, 2), userId, fail)
        userLikedSongs == userLikedSongsOf(likedRead)
        availableSongs == SmartAvailable(songsRead.data[1], excludeSongs)
        scoredSongs ==
            [k \in DOMAIN availableSongs |->
                Scored(convertDatabaseSong(availableSongs[k], availableSongs[k].file_id \in userLikedSongs),
                       SmartScore(availableSongs[k], k, listenedSongsInBatch, userLikedSongs, rnd),
                       SmartMatchingTags(availableSongs[k], SmartPreferredTags(listenedSongsInBatch)),
                       0, 0)]
    IN  IF songsRead.thrown \/ songsRead.error \/ Len(songsRead.data[1]) = 0
        THEN Pass(<<"songs">>, <<>>, <<>>, <<>>)
        ELSE IF likedRead.thrown \/ Len(availableSongs) = 0
        THEN Pass(<<"songs", "liked_songs">>, availableSongs, <<>>, <<>>)
        ELSE Pass(<<"songs", "liked_songs">>, availableSongs, scoredSongs,
                  Recommend(scoredSongs, SmartTop))

\* getSmartPersonalizedSongs without its check of the batch
getSmartUnchecked(snaps, userId, listenedSongsInBatch, excludeSongs, rnd, fail) ==
    SmartRanked(snaps, userId, listenedSongsInBatch, excludeSongs, rnd, fail)

getSmartPersonalizedSongs(snaps, userId, listenedSongsInBatch, excludeSongs, rnd, fail) ==
    IF Len(listenedSongsInBatch) = 0 THEN Pass(<<>>, <<>>, <<>>, <<>>)
    ELSE SmartRanked(snaps, userId, listenedSongsInBatch, excludeSongs, rnd, fail)

(***************************************************************************)
(* getPersonalizedSongs: the contextual strategy                           *)
(***************************************************************************)
\* historyMap: for each song_id the minutes of the last row set for it
ContextHistoryMap(historyData) ==
    [id \in {historyData[i].song_id : i \in DOMAIN historyData} |->
        LET last == CHOOSE i \in DOMAIN historyData :
                        /\ historyData[i].song_id = id
                        /\ \A j \in DOMAIN historyData : historyData[j].song_id = id => j <= i
        IN  historyData[last].minutes_listened]

\* historyMap.get(song.file_id) || 0
ListenedMinutes(historyMap, file_id) ==
    IF file_id \in DOMAIN historyMap THEN historyMap[file_id] ELSE 0

\* HistoryBoost without the cap
HistoryBoostUncapped(listenedMinutes) == listenedMinutes * HistoryBoostPerCenti

\* Math.min(listenedMinutes * 2, 20)
HistoryBoost(listenedMinutes) == Min(listenedMinutes * HistoryBoostPerCenti, HistoryBoostCap)

\* matchingTags.length of one candidate
ContextMatchingTags(song, currentSong) ==
    Len(SeqFilter(song.tags, LAMBDA tag : Includes(currentSong.tags, tag)))

\* ContextScore with a jitter of twenty times the range
ContextScoreWideJitter(song, k, currentSong, historyMap, userLikedSongs, rnd) ==
    ContextMatchingTags(song, currentSong) * ContextTagWeight
    + (IF song.artist = currentSong.artist THEN ContextArtistWeight ELSE 0)
    + (IF song.language = currentSong.language THEN ContextLanguageWeight ELSE 0)
    + HistoryBoost(ListenedMinutes(historyMap, song.file_id))
    + Popularity(song)
    + (IF song.file_id \in userLikedSongs THEN ContextLikedBonus ELSE 0)
    + Random(rnd, k) * ContextRandomRange * 20

\* the score of the k-th candidate: the contextual terms, Math.random() * 3 added last
ContextScore(song, k, currentSong, historyMap, userLikedSongs, rnd) ==
    ContextMatchingTags(song, currentSong) * ContextTagWeight
    + (IF song.artist = currentSong.artist THEN ContextArtistWeight ELSE 0)
    + (IF song.language = currentSong.language THEN ContextLanguageWeight ELSE 0)
    + HistoryBoost(ListenedMinutes(historyMap, song.file_id))
    + Popularity(song)
    + (IF song.file_id \in userLikedSongs THEN ContextLikedBonus ELSE 0)
    + Random(rnd, k) * ContextRandomRange

\* ContextAvailable that drops the current song only
ContextAvailableCurrentOnly(songsData, currentSong, listenedSongs) ==
    SeqFilter(songsData, LAMBDA song : song.file_id # currentSong.file_id)

\* availableSongs: the catalog without the current song and the listened songs
ContextAvailable(songsData, currentSong, listenedSongs) ==
    SeqFilter(songsData, LAMBDA song :
        /\ song.file_id # currentSong.file_id
        /\ ~(listenedSongs # None /\ ToString(song.file_id) \in listenedSongs[1]))

getPersonalizedSongs(snaps, userId, currentSong, listenedSongs, rnd, fail) ==
    LET songsRead == SelectSongs(SnapAt(snaps, 1), fail)
        historyRead == SelectHistory(SnapAt(snaps, 2), userId, fail)
        historyMap == IF historyRead.data = None THEN << >> ELSE ContextHistoryMap(historyRead.data[1])
        likedRead == SelectLiked(SnapAt(snaps, 3), userId, fail)
        userLikedSongs == userLikedSongsOf(likedRead)
        availableSongs == ContextAvailable(songsRead.data[1], currentSong, listenedSongs)
        scoredSongs ==
            [k \in DOMAIN availableSongs |->
                Scored(convertDatabaseSong(availableSongs[k], availableSongs[k].file_id \in userLikedSongs),
                       ContextScore(availableSongs[k], k, currentSong, historyMap, userLikedSongs, rnd),
                       ContextMatchingTags(availableSongs[k], currentSong),
                       ListenedMinutes(historyMap, availableSongs[k].file_id),
                       HistoryBoost(ListenedMinutes(historyMap, availableSongs[k].file_id)))]
    IN  IF songsRead.thrown \/ songsRead.error \/ Len(songsRead.data[1]) = 0
        THEN Pass(<<"songs">>, <<>>, <<>>, <<>>)
        ELSE IF historyRead.thrown
        THEN Pass(<<"songs", "history">>, <<>>, <<>>, <<>>)
        ELSE IF likedRead.thrown \/ Len(availableSongs) = 0
        THEN Pass(<<"songs", "history", "liked_songs">>, availableSongs, <<>>, <<>>)
        ELSE Pass(<<"songs", "history", "liked_songs">>, availableSongs, scoredSongs,
                  Recommend(scoredSongs, ContextTop))

(***************************************************************************)
(* fetchPersonalizedSongs: the history strategy                            *)
(***************************************************************************)
\* the songs row a history row joins (songs (*)), None when there is none
JoinedSong(table, song_id) ==
    IF \E i \in DOMAIN table : table[i].file_id = song_id
    THEN Some(table[CHOOSE i \in DOMAIN table : table[i].file_id = song_id])
    ELSE None

\* supabase.from('history').select('song_id, minutes_listened, songs (*)')
\*   .eq('user_id', user.id).order('minutes_listened', {ascending: false}).limit(10)
SelectTopHistory(db, userId, fail) ==
    Read("history",
         SeqMap(Slice(SortDesc(SeqFilter(db.history, LAMBDA r : r.user_id = userId),
                               LAMBDA r : r.minutes_listened),
                      HistoryLimit),
                LAMBDA r : [song_id |-> r.song_id, minutes_listened |-> r.minutes_listened,
                            songs |-> JoinedSong(db.songs, r.song_id)]),
         fail)

\* SelectTrending without its order clause
SelectTrendingUnordered(db, fail) == Read("songs", Slice(db.songs, TrendingLimit), fail)

\* supabase.from('songs').select('*').order('views', {ascending: false}).limit(20)
SelectTrending(db, fail) ==
    Read("songs", Slice(SortDesc(db.songs, LAMBDA song : song.views), TrendingLimit), fail)

\* tag.toLowerCase().trim()
Normalize(str) == Trim(ToLowerCase(str))

\* the normalized tags of the top songs, in the order the forEach visits them
RECURSIVE NormalizedTags(_)
NormalizedTags(topSongs) ==
    IF topSongs = <<>> THEN <<>>
    ELSE SeqMap(Head(topSongs).tags, Normalize) \o NormalizedTags(Tail(topSongs))

\* a Map filled by map.set(key, (map.get(key) || 0) + 1) for each key in order:
\* its entries in insertion order
RECURSIVE Counts(_)
Counts(keys) ==
    IF keys = <<>> THEN <<>>
    ELSE LET prev == Counts(SubSeq(keys, 1, Len(keys) - 1))
             key == keys[Len(keys)]
         IN  IF \E i \in DOMAIN prev : prev[i].key = key
             THEN [i \in DOMAIN prev |->
                      IF prev[i].key = key THEN [prev[i] EXCEPT !.count = @ + 1] ELSE prev[i]]
             ELSE Append(prev, [key |-> key, count |-> 1])

\* MostCommon over the entries in reverse insertion order: equal counts then
\* keep the later entry first
MostCommonLatestFirst(counts, n) ==
    LET reversed == [i \in DOMAIN counts |-> counts[Len(counts) + 1 - i]]
    IN  SeqMap(Slice(SortDesc(reversed, LAMBDA e : e.count), n), LAMBDA e : e.key)

\* Array.from(counts.entries()).sort((a, b) => b[1] - a[1]).slice(0, n).map(([k]) => k)
MostCommon(counts, n) ==
    SeqMap(Slice(SortDesc(counts, LAMBDA e : e.count), n), LAMBDA e : e.key)

\* commonTags of the top songs
CommonTags(topSongs) == MostCommon(Counts(NormalizedTags(topSongs)), CommonTagsTop)

\* commonArtists of the top songs
CommonArtists(topSongs) ==
    MostCommon(Counts(SeqMap(topSongs, LAMBDA song : Normalize(song.artist))), CommonArtistsTop)

\* topSongs: the joined songs of the history rows that have one
TopSongs(historyData) ==
    SeqMap(SeqFilter(historyData, LAMBDA item : item.songs # None), LAMBDA item : item.songs[1])

\* historySongIds
HistorySongIds(topSongs) == {song.file_id : song \in Range(topSongs)}

\* availableSongs: the catalog without the songs of historySongIds
HistoryAvailable(allSongs, historySongIds) ==
    SeqFilter(allSongs, LAMBDA song : song.file_id \notin historySongIds)

\* matchingTags.length of one candidate
HistoryMatchingTags(song, commonTags) ==
    Len(SeqFilter(SeqMap(song.tags, Normalize), LAMBDA tag : Includes(commonTags, tag)))

\* the score of the k-th candidate
HistoryScore(song, k, commonTags, commonArtists, userLikedSongs, rnd) ==
    HistoryMatchingTags(song, commonTags) * HistoryTagWeight
    + (IF Includes(commonArtists, Normalize(song.artist)) THEN HistoryArtistWeight ELSE 0)
    + (IF song.file_id \in userLikedSongs THEN HistoryLikedBonus ELSE 0)
    + Popularity(song)
    + Random(rnd, k) * HistoryRandomRange

\* the trending fallback
TrendingFallback(snaps, userId, fail) ==
    LET trendingRead == SelectTrending(SnapAt(snaps, 2), fail)
        likedRead == SelectLiked(SnapAt(snaps, 3), userId, fail)
        userLikedSongs == userLikedSongsOf(likedRead)
    IN  IF trendingRead.thrown THEN Pass(<<"history", "songs">>, <<>>, <<>>, <<>>)
        ELSE IF trendingRead.data = None THEN PassUnset(<<"history", "songs">>)
        ELSE IF likedRead.thrown THEN Pass(<<"history", "songs", "liked_songs">>, <<>>, <<>>, <<>>)
        ELSE Pass(<<"history", "songs", "liked_songs">>, <<>>, <<>>,
                  SeqMap(trendingRead.data[1],
                         LAMBDA song : convertDatabaseSong(song, song.file_id \in userLikedSongs)))

\* the list fetchPersonalizedSongs passes to setPersonalizedSongs
fetchPersonalizedSongs(snaps, userNow, rnd, fail) ==
    IF userNow = NULL THEN Pass(<<>>, <<>>, <<>>, <<>>)
    ELSE
    LET historyRead == SelectTopHistory(SnapAt(snaps, 1), userNow, fail)
        topSongs == TopSongs(historyRead.data[1])
        commonTags == CommonTags(topSongs)
        commonArtists == CommonArtists(topSongs)
        songsRead == SelectSongs(SnapAt(snaps, 2), fail)
        likedRead == SelectLiked(SnapAt(snaps, 3), userNow, fail)
        userLikedSongs == userLikedSongsOf(likedRead)
        availableSongs == HistoryAvailable(songsRead.data[1], HistorySongIds(topSongs))
        scoredSongs ==
            [k \in DOMAIN availableSongs |->
                Scored(convertDatabaseSong(availableSongs[k], availableSongs[k].file_id \in userLikedSongs),
                       HistoryScore(availableSongs[k], k, commonTags, commonArtists, userLikedSongs, rnd),
                       HistoryMatchingTags(availableSongs[k], commonTags),
                       0, 0)]
    IN  IF historyRead.thrown \/ historyRead.error
        THEN Pass(<<"history">>, <<>>, <<>>, <<>>)
        ELSE IF Len(historyRead.data[1]) = 0 THEN TrendingFallback(snaps, userNow, fail)
        ELSE IF songsRead.thrown \/ songsRead.error \/ Len(songsRead.data[1]) = 0
        THEN Pass(<<"history", "songs">>, <<>>, <<>>, <<>>)
        ELSE IF likedRead.thrown \/ Len(availableSongs) = 0
        THEN Pass(<<"history", "songs", "liked_songs">>, availableSongs, <<>>, <<>>)
        ELSE Pass(<<"history", "songs", "liked_songs">>, availableSongs, scoredSongs,
                  Recommend(scoredSongs, HistoryTop))

(***************************************************************************)
(* The inputs drawn for one call.                                          *)
(***************************************************************************)
\* the values Math.random() takes: the ends of [0, 1)
RandomValues == {0, 999}
RandomStreams == [1..StreamLen -> RandomValues]
ZeroStream == [i \in 1..StreamLen |-> 0]

\* the random stream and the failing read of one call: a read fails under one stream
Runs(reads) ==
    {[rnd |-> r, fail |-> NoFail] : r \in RandomStreams}
    \cup {[rnd |-> ZeroStream, fail |-> f] : f \in {g \in TypeFail : g.read \in reads}}

\* Song objects the caller holds
SongA == convertDatabaseSong(DatabaseSong(1, Pool[1]), FALSE)
SongB == convertDatabaseSong(DatabaseSong(2, Pool[2]), FALSE)
SongC == convertDatabaseSong(DatabaseSong(3, Pool[3]), TRUE)
SongE == convertDatabaseSong(DatabaseSong(2, Pool[5]), FALSE)
SongD == convertDatabaseSong(DatabaseSong(4, Pool[4]), FALSE)

\* listenedSongsInBatch
Batches == {<<>>, <<SongA>>, <<SongC, SongE>>}

\* all the ids of the catalog but the first two, as strings
AllButTwo == {ToString(songsTable[i].file_id) : i \in 3..Len(songsTable)}

\* excludeSongs and listenedSongs; "01" is the id of no song
ExcludeSets == {{}, {<<"1">>}, {<<"2">>, <<"3">>, <<"0", "1">>}, AllButTwo}

CurrentSongs == {SongA, SongB, SongD}

NoCall ==
    [op |-> "none", userId |-> NULL, snaps |-> <<>>, listenedSongsInBatch |-> <<>>, excludeSongs |-> {}, currentSong |-> None,
     listenedSongs |-> None, rnd |-> ZeroStream, fail |-> NoFail,
     reads |-> <<>>, availableSongs |-> <<>>, scoredSongs |-> <<>>, value |-> <<>>,
     returned |-> FALSE]

\* the record of a call: the listener it ranked for, the store as each of its
\* reads found it, its inputs and what the pass did
Call(op, userId, snaps, inputs, pass) ==
    [op |-> op, userId |-> userId, snaps |-> snaps, listenedSongsInBatch |-> inputs.listenedSongsInBatch,
     excludeSongs |-> inputs.excludeSongs, currentSong |-> inputs.currentSong,
     listenedSongs |-> inputs.listenedSongs, rnd |-> inputs.rnd, fail |-> inputs.fail,
     reads |-> pass.reads, availableSongs |-> pass.availableSongs,
     scoredSongs |-> pass.scoredSongs, value |-> pass.value,
     returned |-> pass.returned]

Inputs(batch, exclude, current, listened, run) ==
    [listenedSongsInBatch |-> batch, excludeSongs |-> exclude, currentSong |-> current,
     listenedSongs |-> listened, rnd |-> run.rnd, fail |-> run.fail]

(***************************************************************************)
(* The hook after construction, and the store and clock around it.         *)
(***************************************************************************)
\* the tracks the handlers are called with
TrackIds == {1, 2}

\* useState([]), useState(new Set()), useState(null), useState(true), useRef(null)
HookInit ==
    /\ songs = <<>>
    /\ playlists = <<>>
    /\ likedSongs = {}
    /\ lastPlayedSong = None
    /\ recentlyPlayedSongs = <<>>
    /\ loading = TRUE
    /\ currentSongStartTime = None
    /\ currentSongRef = None

\* no playlist, no last song, the clock at 0, no call made
EnvInit ==
    /\ playlistsTable = <<>>
    /\ usersTable = [u \in {"u1"} |-> [last_song_file_id |-> None]]
    /\ now = 0
    /\ calls = {}
    /\ started = 0
    /\ refreshed = 0
    /\ toggled = 0
    /\ handled = 0
    /\ toggled = 0
    /\ handled = 0
    /\ sentMinutes = [t \in TrackIds |-> 0]
    /\ currentTime = [t \in TrackIds |-> 0]

(***************************************************************************)
(* recordListeningHistory and stopCurrentSongTracking on a running clock.  *)
(* A request acts on the store when it is issued; the handler that awaits  *)
(* it resumes in a later step, and other calls may start in between.       *)
(***************************************************************************)
\* minutesListened > 0.1, on milliseconds
ListenThreshold == 6000

DigitValue(c) == (CHOOSE i \in DOMAIN Digits : Digits[i] = c) - 1

\* parseInt of a string of digits
RECURSIVE ParseInt(_)
ParseInt(str) ==
    IF Len(str) = 1 THEN DigitValue(str[1])
    ELSE ParseInt(SubSeq(str, 1, Len(str) - 1)) * 10 + DigitValue(str[Len(str)])

\* the milliseconds up to 40000 whose minutes times 100 fall just below a
\* half in double arithmetic: (8700 / 60000) * 100 is 14.499999999999998
RoundedDown == {8700, 17100, 33900, 34500}

\* Math.round(minutesListened * 100) / 100 in hundredths of a minute, from the
\* milliseconds listened: a minute is 60000 ms, halves round up, in double
\* arithmetic
RoundMinutes(ms) == IF ms \in RoundedDown THEN (ms + 300) \div 600 - 1 ELSE (ms + 300) \div 600

\* the store's upsert_history_minutes(user_uuid, song_file_id, minutes): add
\* the minutes to the row of the user and the song, insert it when there is none
UpsertHistoryMinutes(table, u, id, centis) ==
    IF \E i \in DOMAIN table : table[i].user_id = u /\ table[i].song_id = id
    THEN [i \in DOMAIN table |->
            IF table[i].user_id = u /\ table[i].song_id = id
            THEN HistoryRow(u, id, table[i].minutes_listened + centis)
            ELSE table[i]]
    ELSE Append(table, HistoryRow(u, id, centis))

\* the store's increment_song_views(song_file_id)
IncrementSongViews(table, id) ==
    [i \in DOMAIN table |->
        IF table[i].file_id = id THEN [table[i] EXCEPT !.views = @ + 1] ELSE table[i]]

\* supabase.from('users').update({ last_song_file_id }).eq('id', user.id)
UpdateLastSongFileId(table, u, id) == [table EXCEPT ![u].last_song_file_id = Some(id)]

\* a call suspended at the await of the request named by pc
Suspended(id, op, songId, pc) == [id |-> id, op |-> op, songId |-> songId, pc |-> pc]

\* the previous song is still tracked and was listened to for more than 0.1 minutes
ListenedLongEnough ==
    /\ currentSongRef # None
    /\ currentSongStartTime # None
    /\ now - currentSongStartTime[1] > ListenThreshold

\* supabase.rpc('upsert_history_minutes', ...) for the current song; ok is
\* whether the store accepts it
SendUpsert(ok) ==
    LET id == ParseInt(currentSongRef[1])
        minutes == RoundMinutes(now - currentSongStartTime[1])
    IN  /\ sentMinutes' = [sentMinutes EXCEPT ![id] = @ + minutes]
        /\ historyTable' = IF ok THEN UpsertHistoryMinutes(historyTable, user, id, minutes)
                           ELSE historyTable

\* currentSongRef.current = songId; setCurrentSongStartTime(new Date()); then
\* updateLastSong(songId) up to its await
SetCurrentSong(songId, ok) ==
    /\ currentSongRef' = Some(songId)
    /\ currentSongStartTime' = Some(now)
    /\ usersTable' = IF ok THEN UpdateLastSongFileId(usersTable, user, ParseInt(songId))
                     ELSE usersTable

\* the time steps of the clock, in milliseconds
TickSteps == {2100, 6600}

\* time passes
Tick ==
    /\ \E d \in TickSteps :
          /\ now + d <= MaxClock
          /\ now' = now + d
          /\ currentTime' = IF currentSongRef = None THEN currentTime
                            ELSE [currentTime EXCEPT ![ParseInt(currentSongRef[1])] = @ + d]
    /\ UNCHANGED <<songsTable, historyTable, likedTable, user, personalizedSongs, ret, hookVars>>
    /\ UNCHANGED <<playlistsTable, usersTable, calls, started, refreshed, toggled, handled, sentMinutes>>

\* recordListeningHistory(songId) up to its first await
RecordListeningHistoryCall ==
    /\ user # NULL
    /\ started < MaxCalls
    /\ started' = started + 1
    /\ \E id \in TrackIds, ok \in BOOLEAN :
          IF ListenedLongEnough
          THEN /\ SendUpsert(ok)
               /\ calls' = calls \cup {Suspended(started + 1, "recordListeningHistory",
                                                 ToString(id), "upsert_history_minutes")}
               /\ UNCHANGED <<currentSongRef, currentSongStartTime, usersTable>>
          ELSE /\ SetCurrentSong(ToString(id), ok)
               /\ calls' = calls \cup {Suspended(started + 1, "recordListeningHistory",
                                                 ToString(id), "users")}
               /\ UNCHANGED <<sentMinutes, historyTable>>
    /\ UNCHANGED <<songsTable, likedTable, user, personalizedSongs, ret>>
    /\ UNCHANGED <<songs, playlists, likedSongs, lastPlayedSong, recentlyPlayedSongs, loading>>
    /\ UNCHANGED <<playlistsTable, now, refreshed, toggled, handled, currentTime>>

\* recordListeningHistory resumes after upsert_history_minutes
RecordSetsCurrentSong ==
    /\ \E c \in calls, ok \in BOOLEAN :
          /\ c.op = "recordListeningHistory" /\ c.pc = "upsert_history_minutes"
          /\ SetCurrentSong(c.songId, ok)
          /\ calls' = (calls \ {c}) \cup {[c EXCEPT !.pc = "users"]}
    /\ UNCHANGED <<songsTable, historyTable, likedTable, user, personalizedSongs, ret>>
    /\ UNCHANGED <<songs, playlists, likedSongs, lastPlayedSong, recentlyPlayedSongs, loading>>
    /\ UNCHANGED <<playlistsTable, now, refreshed, toggled, handled, started, sentMinutes, currentTime>>

\* recordListeningHistory resumes after updateLastSong: increment_song_views
RecordIncrementsViews ==
    /\ \E c \in calls, ok \in BOOLEAN :
          /\ c.op = "recordListeningHistory" /\ c.pc = "users"
          /\ songsTable' = IF ok THEN IncrementSongViews(songsTable, ParseInt(c.songId))
                           ELSE songsTable
          /\ calls' = (calls \ {c}) \cup {[c EXCEPT !.pc = "increment_song_views"]}
    /\ UNCHANGED <<historyTable, likedTable, user, personalizedSongs, ret, hookVars>>
    /\ UNCHANGED <<playlistsTable, usersTable, now, refreshed, toggled, handled, started, sentMinutes, currentTime>>

\* recordListeningHistory returns
RecordReturns ==
    /\ \E c \in calls :
          /\ c.op = "recordListeningHistory" /\ c.pc = "increment_song_views"
          /\ calls' = calls \ {c}
    /\ UNCHANGED <<songsTable, historyTable, likedTable, user, personalizedSongs, ret, hookVars>>
    /\ UNCHANGED <<playlistsTable, usersTable, now, refreshed, toggled, handled, started, sentMinutes, currentTime>>

\* stopCurrentSongTracking() up to its await, or to its end when it has none
StopCurrentSongTrackingCall ==
    /\ started < MaxCalls
    /\ started' = started + 1
    /\ IF ListenedLongEnough /\ user # NULL
       THEN /\ \E ok \in BOOLEAN : SendUpsert(ok)
            /\ calls' = calls \cup {Suspended(started + 1, "stopCurrentSongTracking",
                                              <<>>, "upsert_history_minutes")}
            /\ UNCHANGED <<currentSongRef, currentSongStartTime>>
       ELSE /\ currentSongRef' = None
            /\ currentSongStartTime' = None
            /\ UNCHANGED <<calls, sentMinutes, historyTable>>
    /\ UNCHANGED <<songsTable, likedTable, user, personalizedSongs, ret>>
    /\ UNCHANGED <<songs, playlists, likedSongs, lastPlayedSong, recentlyPlayedSongs, loading>>
    /\ UNCHANGED <<playlistsTable, usersTable, now, refreshed, toggled, handled, currentTime>>

\* stopCurrentSongTracking resumes after upsert_history_minutes
StopClearsCurrentSong ==
    /\ \E c \in calls :
          /\ c.op = "stopCurrentSongTracking"
          /\ calls' = calls \ {c}
    /\ currentSongRef' = None
    /\ currentSongStartTime' = None
    /\ UNCHANGED <<songsTable, historyTable, likedTable, user, personalizedSongs, ret>>
    /\ UNCHANGED <<songs, playlists, likedSongs, lastPlayedSong, recentlyPlayedSongs, loading>>
    /\ UNCHANGED <<playlistsTable, usersTable, now, refreshed, toggled, handled, started, sentMinutes, currentTime>>

InitTracking ==
    /\ songsTable = Catalog(3, 0)
    /\ historyTable = <<>>
    /\ likedTable = {}
    /\ user = "u1"
    /\ personalizedSongs = <<>>
    /\ ret = NoCall
    /\ HookInit
    /\ EnvInit

NextTracking ==
    \/ Tick
    \/ RecordListeningHistoryCall
    \/ RecordSetsCurrentSong
    \/ RecordIncrementsViews
    \/ RecordReturns
    \/ StopCurrentSongTrackingCall
    \/ StopClearsCurrentSong

SpecTracking == InitTracking /\ [][NextTracking]_vars

(***************************************************************************)
(* toggleLike on a loaded hook.                                            *)
(***************************************************************************)
\* supabase.from('songs').select('*').order('views', { ascending: false })
SelectSongsByViews(table) == SortDesc(table, LAMBDA song : song.views)

\* convertedSongs of fetchSongs
ConvertedSongs(songsData, userLikedSongs) ==
    [i \in DOMAIN songsData |->
        convertDatabaseSong(songsData[i], songsData[i].file_id \in userLikedSongs)]

\* sortedSongs of fetchSongs: the converted rows by views + likes descending
SortedSongs(songsData, userLikedSongs) ==
    SortDesc(ConvertedSongs(songsData, userLikedSongs), LAMBDA song : song.views + song.likes)

\* the store's increment_song_likes / decrement_song_likes(song_file_id)
ChangeSongLikes(table, id, by) ==
    [i \in DOMAIN table |->
        IF table[i].file_id = id THEN [table[i] EXCEPT !.likes = @ + by] ELSE table[i]]

\* the map of setSongs and setPlaylists in toggleLike, on one list of songs
ToggleSongs(list, songId, isCurrentlyLiked) ==
    [i \in DOMAIN list |->
        IF list[i].id = songId
        THEN [list[i] EXCEPT !.isLiked = ~isCurrentlyLiked,
                             !.likes = @ + (IF isCurrentlyLiked THEN -1 ELSE 1)]
        ELSE list[i]]

\* toggleLike(songId) up to its first await: the delete or the insert of the
\* liked_songs row is issued; an error ends the call in its catch
ToggleLikeCall ==
    /\ user # NULL
    /\ toggled < MaxToggles
    /\ toggled' = toggled + 1
    /\ started' = started + 1
    /\ \E id \in TrackIds, ok \in BOOLEAN :
          LET songId == ToString(id)
              songFileId == ParseInt(songId)
              isCurrentlyLiked == songFileId \in likedSongs
              row == LikedRow(user, songFileId)
              accepted == ok /\ (isCurrentlyLiked \/ row \notin likedTable)
          IN  /\ likedTable' = IF ~accepted THEN likedTable
                               ELSE IF isCurrentlyLiked THEN likedTable \ {row}
                               ELSE likedTable \cup {row}
              /\ calls' = IF ~accepted THEN calls
                          ELSE calls \cup {[id |-> started + 1, op |-> "toggleLike",
                                            songId |-> songId, pc |-> "liked_songs",
                                            isCurrentlyLiked |-> isCurrentlyLiked]}
    /\ UNCHANGED <<songsTable, historyTable, user, personalizedSongs, ret, hookVars>>
    /\ UNCHANGED <<playlistsTable, usersTable, now, refreshed, handled, sentMinutes, currentTime>>

\* toggleLike resumes after the delete or insert: the rpc of the likes counter
\* is issued; the store runs it, or answers with an error the handler does not
\* look at, or the request is rejected and the handler ends in its catch
\* when it resumes
ToggleLikeCounts ==
    /\ \E c \in calls, outcome \in RequestOutcomes :
          /\ c.op = "toggleLike" /\ c.pc = "liked_songs"
          /\ songsTable' = IF outcome = "data"
                           THEN ChangeSongLikes(songsTable, ParseInt(c.songId),
                                                IF c.isCurrentlyLiked THEN -1 ELSE 1)
                           ELSE songsTable
          /\ calls' = (calls \ {c}) \cup
                          {[c EXCEPT !.pc = IF outcome = "throw" THEN "catch" ELSE "song_likes"]}
    /\ UNCHANGED <<historyTable, likedTable, user, personalizedSongs, ret, hookVars>>
    /\ UNCHANGED <<playlistsTable, usersTable, now, refreshed, toggled, handled, started, sentMinutes, currentTime>>

\* toggleLike resumes after the counter: setLikedSongs, setSongs, setPlaylists
ToggleLikeReturns ==
    /\ \E c \in calls :
          /\ c.op = "toggleLike" /\ c.pc = "song_likes"
          /\ likedSongs' = IF c.isCurrentlyLiked THEN likedSongs \ {ParseInt(c.songId)}
                           ELSE likedSongs \cup {ParseInt(c.songId)}
          /\ songs' = ToggleSongs(songs, c.songId, c.isCurrentlyLiked)
          /\ playlists' = [p \in DOMAIN playlists |->
                              [playlists[p] EXCEPT
                                  !.songs = ToggleSongs(@, c.songId, c.isCurrentlyLiked)]]
          /\ calls' = calls \ {c}
    /\ UNCHANGED <<songsTable, historyTable, likedTable, user, personalizedSongs, ret>>
    /\ UNCHANGED <<lastPlayedSong, recentlyPlayedSongs, loading, currentSongStartTime, currentSongRef>>
    /\ UNCHANGED <<playlistsTable, usersTable, now, refreshed, toggled, handled, started, sentMinutes, currentTime>>

\* toggleLike resumes in its catch after a rejected rpc: it logs the error and
\* ends without setLikedSongs, setSongs and setPlaylists
ToggleLikeCatches ==
    /\ \E c \in calls :
          /\ c.op = "toggleLike" /\ c.pc = "catch"
          /\ calls' = calls \ {c}
    /\ UNCHANGED <<songsTable, historyTable, likedTable, user, personalizedSongs, ret, hookVars>>
    /\ UNCHANGED <<playlistsTable, usersTable, now, refreshed, toggled, handled, started, sentMinutes, currentTime>>

\* the hook after its load: the songs and the liked set as fetchSongs sets them
InitLikes ==
    /\ songsTable = Catalog(3, 0)
    /\ historyTable = <<>>
    /\ likedTable \in LikedTables
    /\ user = "u1"
    /\ personalizedSongs = <<>>
    /\ ret = NoCall
    /\ likedSongs = userLikedSongsOf(SelectLiked(Store, user, NoFail))
    /\ songs = SortedSongs(SelectSongsByViews(songsTable), userLikedSongsOf(SelectLiked(Store, user, NoFail)))
    /\ playlists = <<>>
    /\ lastPlayedSong = None
    /\ recentlyPlayedSongs = <<>>
    /\ loading = FALSE
    /\ currentSongStartTime = None
    /\ currentSongRef = None
    /\ EnvInit

NextLikes == ToggleLikeCall \/ ToggleLikeCounts \/ ToggleLikeReturns \/ ToggleLikeCatches

SpecLikes == InitLikes /\ [][NextLikes]_vars

(***************************************************************************)
(* The playlist handlers on a loaded hook.  A playlists row of the store   *)
(* carries the song ids of its playlist_songs rows.                        *)
(***************************************************************************)
PlaylistNames == {"P", "Q"}

\* a row of playlists with its playlist_songs
PlaylistRow(id, u, name, songIds) == [id |-> id, user_id |-> u, name |-> name, songs |-> songIds]

\* a Playlist of the hook
Playlist(id, name, songCount, list) == [id |-> id, name |-> name, songCount |-> songCount, songs |-> list]

\* the songs row with the given file_id (the join songs (*))
SongRow(file_id) == songsTable[CHOOSE i \in DOMAIN songsTable : songsTable[i].file_id = file_id]

\* convertedPlaylists of fetchPlaylists: the rows of the user, songCount the
\* length of the converted playlist_songs
ConvertedPlaylists(userId, liked) ==
    LET playlistsData == SeqFilter(playlistsTable, LAMBDA row : row.user_id = userId)
    IN  [p \in DOMAIN playlistsData |->
            LET playlistSongs ==
                    [k \in DOMAIN playlistsData[p].songs |->
                        convertDatabaseSong(SongRow(playlistsData[p].songs[k]),
                                            playlistsData[p].songs[k] \in liked)]
            IN  Playlist(ToString(playlistsData[p].id), playlistsData[p].name,
                         Len(playlistSongs), playlistSongs)]

\* the playlist of addSongToPlaylist's map that leaves songCount as it was
AddSongKeepsCount(playlist, song) ==
    IF ~(\E i \in DOMAIN playlist.songs : playlist.songs[i].id = song.id)
    THEN [playlist EXCEPT !.songs = Append(playlist.songs, song)]
    ELSE playlist

\* the playlist of addSongToPlaylist's map, for the playlist with the id given
AddSong(playlist, song) ==
    IF ~(\E i \in DOMAIN playlist.songs : playlist.songs[i].id = song.id)
    THEN LET updatedSongs == Append(playlist.songs, song)
         IN  [playlist EXCEPT !.songs = updatedSongs, !.songCount = Len(updatedSongs)]
    ELSE playlist

\* the playlist of removeSongFromPlaylist's map, for the playlist with the id given
RemoveSong(playlist, songId) ==
    LET updatedSongs == SeqFilter(playlist.songs, LAMBDA song : song.id # songId)
    IN  [playlist EXCEPT !.songs = updatedSongs, !.songCount = Len(updatedSongs)]

\* a playlist call suspended at its store request
PlaylistCall(op, playlistId, name, song, data) ==
    [id |-> started + 1, op |-> op, playlistId |-> playlistId, name |-> name,
     song |-> song, data |-> data]

\* what a playlist call leaves alone
PlaylistCallFrame ==
    /\ handled < MaxPlaylistCalls
    /\ handled' = handled + 1
    /\ started' = started + 1
    /\ UNCHANGED <<songsTable, historyTable, likedTable, user, personalizedSongs, ret, hookVars>>
    /\ UNCHANGED <<usersTable, now, refreshed, toggled, sentMinutes, currentTime>>

\* what the return of a playlist call leaves alone
PlaylistReturnFrame ==
    /\ UNCHANGED <<songsTable, historyTable, likedTable, user, personalizedSongs, ret>>
    /\ UNCHANGED <<songs, likedSongs, lastPlayedSong, recentlyPlayedSongs, loading,
                   currentSongStartTime, currentSongRef>>
    /\ UNCHANGED <<playlistsTable, usersTable, now, refreshed, toggled, handled, started, sentMinutes, currentTime>>

\* a store write that fails: the handler throws into its catch and ends
WriteFails == UNCHANGED <<playlistsTable, calls>>

\* createPlaylist(name) up to its await
CreatePlaylistCall ==
    /\ user # NULL
    /\ \E name \in {"P"} :
          \/ /\ playlistsTable' = Append(playlistsTable, PlaylistRow(started + 1, user, name, <<>>))
             /\ calls' = calls \cup {PlaylistCall("createPlaylist", ToString(started + 1), name, None, <<>>)}
          \/ WriteFails
    /\ PlaylistCallFrame

\* setPlaylists(prev => [...prev, newPlaylist])
CreatePlaylistReturns ==
    /\ \E c \in calls :
          /\ c.op = "createPlaylist"
          /\ playlists' = Append(playlists, Playlist(c.playlistId, c.name, 0, <<>>))
          /\ calls' = calls \ {c}
    /\ PlaylistReturnFrame

\* deletePlaylist(playlistId) up to its await
DeletePlaylistCall ==
    /\ user # NULL
    /\ \E p \in DOMAIN playlists :
          \/ /\ playlistsTable' = SeqFilter(playlistsTable, LAMBDA row :
                    ~(row.id = ParseInt(playlists[p].id) /\ row.user_id = user))
             /\ calls' = calls \cup {PlaylistCall("deletePlaylist", playlists[p].id, "", None, <<>>)}
          \/ WriteFails
    /\ PlaylistCallFrame

\* setPlaylists(prev => prev.filter(playlist => playlist.id !== playlistId))
DeletePlaylistReturns ==
    /\ \E c \in calls :
          /\ c.op = "deletePlaylist"
          /\ playlists' = SeqFilter(playlists, LAMBDA playlist : playlist.id # c.playlistId)
          /\ calls' = calls \ {c}
    /\ PlaylistReturnFrame

\* renamePlaylist(playlistId, newName) up to its await
RenamePlaylistCall ==
    /\ user # NULL
    /\ \E p \in DOMAIN playlists, newName \in PlaylistNames :
          \/ /\ playlistsTable' = [i \in DOMAIN playlistsTable |->
                    IF playlistsTable[i].id = ParseInt(playlists[p].id) /\ playlistsTable[i].user_id = user
                    THEN [playlistsTable[i] EXCEPT !.name = newName]
                    ELSE playlistsTable[i]]
             /\ calls' = calls \cup {PlaylistCall("renamePlaylist", playlists[p].id, newName, None, <<>>)}
          \/ WriteFails
    /\ PlaylistCallFrame

\* setPlaylists(prev => prev.map(...)) of renamePlaylist
RenamePlaylistReturns ==
    /\ \E c \in calls :
          /\ c.op = "renamePlaylist"
          /\ playlists' = [p \in DOMAIN playlists |->
                IF playlists[p].id = c.playlistId THEN [playlists[p] EXCEPT !.name = c.name]
                ELSE playlists[p]]
          /\ calls' = calls \ {c}
    /\ PlaylistReturnFrame

\* addSongToPlaylist(playlistId, song) up to its await
AddSongToPlaylistCall ==
    /\ user # NULL
    /\ \E p \in DOMAIN playlists, s \in DOMAIN songs :
          \/ /\ playlistsTable' = [i \in DOMAIN playlistsTable |->
                    IF playlistsTable[i].id = ParseInt(playlists[p].id)
                    THEN [playlistsTable[i] EXCEPT !.songs = Append(@, songs[s].file_id)]
                    ELSE playlistsTable[i]]
             /\ calls' = calls \cup {PlaylistCall("addSongToPlaylist", playlists[p].id, "",
                                                  Some(songs[s]), <<>>)}
          \/ WriteFails
    /\ PlaylistCallFrame

\* setPlaylists(prev => prev.map(...)) of addSongToPlaylist
AddSongToPlaylistReturns ==
    /\ \E c \in calls :
          /\ c.op = "addSongToPlaylist"
          /\ playlists' = [p \in DOMAIN playlists |->
                IF playlists[p].id = c.playlistId THEN AddSong(playlists[p], c.song[1])
                ELSE playlists[p]]
          /\ calls' = calls \ {c}
    /\ PlaylistReturnFrame

\* removeSongFromPlaylist(playlistId, songId) up to its await
RemoveSongFromPlaylistCall ==
    /\ user # NULL
    /\ \E p \in DOMAIN playlists, s \in DOMAIN songs :
          \/ /\ playlistsTable' = [i \in DOMAIN playlistsTable |->
                    IF playlistsTable[i].id = ParseInt(playlists[p].id)
                    THEN [playlistsTable[i] EXCEPT
                             !.songs = SeqFilter(@, LAMBDA id : id # ParseInt(songs[s].id))]
                    ELSE playlistsTable[i]]
             /\ calls' = calls \cup {PlaylistCall("removeSongFromPlaylist", playlists[p].id, "",
                                                  Some(songs[s]), <<>>)}
          \/ WriteFails
    /\ PlaylistCallFrame

\* setPlaylists(prev => prev.map(...)) of removeSongFromPlaylist
RemoveSongFromPlaylistReturns ==
    /\ \E c \in calls :
          /\ c.op = "removeSongFromPlaylist"
          /\ playlists' = [p \in DOMAIN playlists |->
                IF playlists[p].id = c.playlistId THEN RemoveSong(playlists[p], c.song[1].id)
                ELSE playlists[p]]
          /\ calls' = calls \ {c}
    /\ PlaylistReturnFrame

(***************************************************************************)
(* The fetches and the ranking strategies as steps between their awaits.   *)
(* A call keeps the user of the render that started it and the answers of  *)
(* the reads it made; the store may change between two of its reads.       *)
(***************************************************************************)
\* .limit(9) of fetchRecentlyPlayed
RecentLimit == 9

\* a fetch of the user userId suspended at the read named by pc, in a run
\* with the failing read fail; the steps add what the call holds from before
\* and what the store answers the read with when it answers with data
Fetching(id, op, userId, pc, fail) ==
    [id |-> id, op |-> op, user |-> userId, pc |-> pc, fail |-> fail]

\* how the store answers the read the fetch c is suspended at
Outcome(c) == IF c.fail.read = c.pc THEN c.fail.how ELSE "data"

\* the record r with one more field
With(r, field, value) == [f \in DOMAIN r \cup {field} |-> IF f = field THEN value ELSE r[f]]

\* a call of a ranking strategy suspended at its latest read: snaps is the
\* store at the moment each of its reads was issued
Ranking(id, op, userId, inputs, snaps) ==
    [id |-> id, op |-> op, user |-> userId, pc |-> "read", inputs |-> inputs, snaps |-> snaps]

StrategyOps == {"getSmartPersonalizedSongs", "getPersonalizedSongs", "fetchPersonalizedSongs"}

\* no call of a strategy has been made: the runs hold one such call
NoStrategyCalled == ret.op = "none" /\ ~(\E c \in calls : c.op \in StrategyOps)

\* no effect is due: React runs the effects of a render before it handles an
\* event or renders again
EffectsRun == ~(\E c \in calls : c.op = "loadData" /\ c.pc = "render")

\* historyData of fetchRecentlyPlayed: the 9 rows with the most minutes, joined
SelectRecentHistory(db, userId) ==
    SeqMap(Slice(SortDesc(SeqFilter(db.history, LAMBDA r : r.user_id = userId),
                          LAMBDA r : r.minutes_listened),
                 RecentLimit),
           LAMBDA r : [song_id |-> r.song_id, minutes_listened |-> r.minutes_listened,
                       songs |-> JoinedSong(db.songs, r.song_id)])

\* recentSongs of fetchRecentlyPlayed
RecentSongs(historyData, userLikedSongs) ==
    SeqMap(SeqFilter(historyData, LAMBDA item : item.songs # None),
           LAMBDA item : convertDatabaseSong(item.songs[1], item.song_id \in userLikedSongs))

\* what the steps of the fetches and of the strategies leave alone
FetchFrame ==
    /\ UNCHANGED <<songsTable, historyTable, likedTable, user>>
    /\ UNCHANGED <<loading, currentSongStartTime, currentSongRef>>
    /\ UNCHANGED <<playlistsTable, usersTable, now, refreshed, toggled, handled, started, sentMinutes, currentTime>>

\* fetchSongs resumes after the read of songs: the read of liked_songs is
\* issued, or setSongs([]) in the catch when the read gave an error or was
\* rejected
FetchSongsReadsLiked ==
    /\ \E c \in calls :
          /\ c.op = "fetchSongs" /\ c.pc = "songs"
          /\ IF Outcome(c) = "data"
             THEN /\ calls' = (calls \ {c}) \cup
                        {With(With(Fetching(c.id, c.op, c.user, "liked_songs", c.fail),
                                   "songsData", c.songsData),
                              "likedData", userLikedSongsOf(SelectLiked(Store, c.user, NoFail)))}
                  /\ UNCHANGED songs
             ELSE /\ calls' = calls \ {c}
                  /\ songs' = <<>>
    /\ UNCHANGED <<personalizedSongs, ret, playlists, likedSongs, lastPlayedSong, recentlyPlayedSongs>>
    /\ FetchFrame

\* fetchSongs resumes after the read of liked_songs: setLikedSongs when the
\* read gave data, setSongs(sortedSongs), then the read of users is issued;
\* setSongs([]) in the catch when the read was rejected
FetchSongsSetsSongs ==
    /\ \E c \in calls :
          /\ c.op = "fetchSongs" /\ c.pc = "liked_songs"
          /\ LET userLikedSongs == IF Outcome(c) = "data" THEN c.likedData ELSE {}
             IN  IF Outcome(c) = "throw"
                 THEN /\ calls' = calls \ {c}
                      /\ songs' = <<>>
                      /\ UNCHANGED likedSongs
                 ELSE /\ likedSongs' = IF Outcome(c) = "data" THEN userLikedSongs ELSE likedSongs
                      /\ songs' = SortedSongs(c.songsData, userLikedSongs)
                      /\ calls' = (calls \ {c}) \cup
                            {With(With(Fetching(c.id, c.op, c.user, "users", c.fail),
                                       "convertedSongs", ConvertedSongs(c.songsData, userLikedSongs)),
                                  "userData", usersTable[c.user].last_song_file_id)}
    /\ UNCHANGED <<personalizedSongs, ret, playlists, lastPlayedSong, recentlyPlayedSongs>>
    /\ FetchFrame

\* fetchSongs resumes after the read of users: setLastPlayedSong(lastSong) when
\* the row names a song of convertedSongs; setSongs([]) in the catch when the
\* read was rejected
FetchSongsReturns ==
    /\ \E c \in calls :
          /\ c.op = "fetchSongs" /\ c.pc = "users"
          /\ LET last == IF Outcome(c) = "data" THEN c.userData ELSE None
                 found == SeqFilter(c.convertedSongs,
                                    LAMBDA song : last # None /\ song.file_id = last[1])
             IN  lastPlayedSong' = IF Len(found) > 0 THEN Some(found[1]) ELSE lastPlayedSong
          /\ songs' = IF Outcome(c) = "throw" THEN <<>> ELSE songs
          /\ calls' = calls \ {c}
    /\ UNCHANGED <<personalizedSongs, ret, playlists, likedSongs, recentlyPlayedSongs>>
    /\ FetchFrame

\* fetchPlaylists resumes after its read: setPlaylists(convertedPlaylists), or
\* nothing in the catch when the read gave an error or was rejected
FetchPlaylistsReturns ==
    /\ \E c \in calls :
          /\ c.op = "fetchPlaylists"
          /\ playlists' = IF Outcome(c) = "data" THEN c.convertedPlaylists ELSE playlists
          /\ calls' = calls \ {c}
    /\ UNCHANGED <<personalizedSongs, ret, songs, likedSongs, lastPlayedSong, recentlyPlayedSongs>>
    /\ FetchFrame

\* fetchRecentlyPlayed resumes after the read of history: it returns on an
\* error, sets the empty list for an empty history or in the catch, else the
\* read of liked_songs is issued
FetchRecentlyPlayedReadsLiked ==
    /\ \E c \in calls :
          /\ c.op = "fetchRecentlyPlayed" /\ c.pc = "history"
          /\ IF Outcome(c) = "error"
             THEN calls' = calls \ {c} /\ UNCHANGED recentlyPlayedSongs
             ELSE IF Outcome(c) = "throw" \/ Len(c.historyData) = 0
             THEN calls' = calls \ {c} /\ recentlyPlayedSongs' = <<>>
             ELSE /\ calls' = (calls \ {c}) \cup
                        {With(With(Fetching(c.id, c.op, c.user, "liked_songs", c.fail),
                                   "historyData", c.historyData),
                              "likedData", userLikedSongsOf(SelectLiked(Store, c.user, NoFail)))}
                  /\ UNCHANGED recentlyPlayedSongs
    /\ UNCHANGED <<personalizedSongs, ret, songs, playlists, likedSongs, lastPlayedSong>>
    /\ FetchFrame

\* fetchRecentlyPlayed resumes after the read of liked_songs:
\* setRecentlyPlayedSongs(recentSongs), or the empty list in the catch
FetchRecentlyPlayedReturns ==
    /\ \E c \in calls :
          /\ c.op = "fetchRecentlyPlayed" /\ c.pc = "liked_songs"
          /\ recentlyPlayedSongs' =
                IF Outcome(c) = "throw" THEN <<>>
                ELSE RecentSongs(c.historyData, IF Outcome(c) = "data" THEN c.likedData ELSE {})
          /\ calls' = calls \ {c}
    /\ UNCHANGED <<personalizedSongs, ret, songs, playlists, likedSongs, lastPlayedSong>>
    /\ FetchFrame

\* what the strategy of the call c makes of the reads answered so far
StrategyPass(c) ==
    CASE c.op = "getSmartPersonalizedSongs" ->
            getSmartPersonalizedSongs(c.snaps, c.user, c.inputs.listenedSongsInBatch,
                                      c.inputs.excludeSongs, c.inputs.rnd, c.inputs.fail)
      [] c.op = "getPersonalizedSongs" ->
            getPersonalizedSongs(c.snaps, c.user, c.inputs.currentSong[1],
                                 c.inputs.listenedSongs, c.inputs.rnd, c.inputs.fail)
      [] c.op = "fetchPersonalizedSongs" ->
            fetchPersonalizedSongs(c.snaps, c.user, c.inputs.rnd, c.inputs.fail)

\* a strategy runs up to its first await: it returns when it ends before any
\* read, else its first read is issued; rest are the other calls suspended
\* when the turn ends
StrategyStarts(c, rest) ==
    LET pass == StrategyPass(c)
    IN  IF Len(pass.reads) = 0
        THEN /\ ret' = Call(c.op, c.user, <<>>, c.inputs, pass)
             /\ personalizedSongs' = IF c.op = "fetchPersonalizedSongs" /\ pass.returned
                                     THEN pass.value ELSE personalizedSongs
             /\ calls' = rest
        ELSE /\ calls' = rest \cup {c}
             /\ UNCHANGED <<ret, personalizedSongs>>

\* a strategy resumes after a read: its next read is issued, or it ends (the
\* history strategy with setPersonalizedSongs, unless its trending read gave
\* no data)
StrategyResumes(op) ==
    \E c \in calls :
       /\ c.op = op
       /\ LET pass == StrategyPass(c)
          IN  IF Len(pass.reads) > Len(c.snaps)
              THEN /\ calls' = (calls \ {c}) \cup {[c EXCEPT !.snaps = Append(@, Store)]}
                   /\ UNCHANGED <<ret, personalizedSongs>>
              ELSE /\ calls' = calls \ {c}
                   /\ ret' = Call(c.op, c.user, c.snaps, c.inputs, pass)
                   /\ personalizedSongs' = IF op = "fetchPersonalizedSongs" /\ pass.returned
                                           THEN pass.value ELSE personalizedSongs

\* the listeners the exported strategies are called for
UserIds == {"u1"}

\* getSmartPersonalizedSongs(userId, listenedSongsInBatch, excludeSongs) up to
\* its first await
SmartCall ==
    /\ NoStrategyCalled
    /\ \E userId \in UserIds, batch \in Batches, exclude \in ExcludeSets,
          run \in Runs({"songs", "liked_songs"}) :
          StrategyStarts(Ranking(0, "getSmartPersonalizedSongs", userId,
                                 Inputs(batch, exclude, None, None, run), <<Store>>), calls)
    /\ UNCHANGED <<songs, playlists, likedSongs, lastPlayedSong, recentlyPlayedSongs>>
    /\ FetchFrame

\* getSmartPersonalizedSongs resumes after a read
SmartResumes ==
    /\ StrategyResumes("getSmartPersonalizedSongs")
    /\ UNCHANGED <<songs, playlists, likedSongs, lastPlayedSong, recentlyPlayedSongs>>
    /\ FetchFrame

\* getPersonalizedSongs(userId, currentSong, listenedSongs) up to its first await
ContextCall ==
    /\ NoStrategyCalled
    /\ \E userId \in UserIds, current \in CurrentSongs,
          listened \in {Some(e) : e \in ExcludeSets} \cup {None},
          run \in Runs({"songs", "history", "liked_songs"}) :
          StrategyStarts(Ranking(0, "getPersonalizedSongs", userId,
                                 Inputs(<<>>, {}, Some(current), listened, run), <<Store>>), calls)
    /\ UNCHANGED <<songs, playlists, likedSongs, lastPlayedSong, recentlyPlayedSongs>>
    /\ FetchFrame

\* getPersonalizedSongs resumes after a read
ContextResumes ==
    /\ StrategyResumes("getPersonalizedSongs")
    /\ UNCHANGED <<songs, playlists, likedSongs, lastPlayedSong, recentlyPlayedSongs>>
    /\ FetchFrame

\* fetchPersonalizedSongs resumes after a read
FetchPersonalizedSongsResumes ==
    /\ StrategyResumes("fetchPersonalizedSongs")
    /\ UNCHANGED <<songs, playlists, likedSongs, lastPlayedSong, recentlyPlayedSongs>>
    /\ FetchFrame

\* fetchSongs(), fetchPlaylists() and fetchRecentlyPlayed() of a render with
\* the user userId, each up to its first await
StartedFetches(id, userId, fail) ==
    { With(Fetching(id, "fetchSongs", userId, "songs", fail),
           "songsData", SelectSongsByViews(songsTable)),
      With(Fetching(id, "fetchPlaylists", userId, "playlists", fail),
           "convertedPlaylists", ConvertedPlaylists(userId, likedSongs)),
      With(Fetching(id, "fetchRecentlyPlayed", userId, "history", fail),
           "historyData", SelectRecentHistory(Store, userId)) }

\* the run in which no read fails and Math.random() returns 0
QuietRun == [rnd |-> ZeroStream, fail |-> NoFail]

\* refreshData(): the four fetches of this render in one turn, each up to its
\* first await; without a user each sets its empty list and returns.  runs
\* are the runs the history strategy is drawn from
Refresh(runs) ==
    /\ EffectsRun
    /\ \E run \in runs :
          /\ StrategyStarts(Ranking(started + 1, "fetchPersonalizedSongs", user,
                                    Inputs(<<>>, {}, None, None, run), <<Store>>),
                            IF user = NULL THEN calls
                            ELSE calls \cup StartedFetches(started + 1, user, run.fail))
          /\ user = NULL => run = QuietRun
    /\ IF user = NULL
       THEN /\ songs' = <<>>
            /\ playlists' = <<>>
            /\ recentlyPlayedSongs' = <<>>
       ELSE UNCHANGED <<songs, playlists, recentlyPlayedSongs>>
    /\ started' = started + 1
    /\ refreshed' = refreshed + 1
    /\ UNCHANGED <<likedSongs, lastPlayedSong>>
    /\ UNCHANGED <<songsTable, historyTable, likedTable, user>>
    /\ UNCHANGED <<loading, currentSongStartTime, currentSongRef>>
    /\ UNCHANGED <<playlistsTable, usersTable, now, toggled, handled, sentMinutes, currentTime>>

\* refreshData() as the one call of a strategy in a run
RefreshData ==
    NoStrategyCalled /\ Refresh(Runs({"songs", "history", "liked_songs", "users", "playlists"}))

\* refreshData() as one of the handler calls of a run, none of its reads
\* failing
RefreshDataQuiet == refreshed < MaxRefreshes /\ Refresh({QuietRun})

\* the loaded hook of a listener who likes track 2 and has the playlist P
\* holding track 1, after MaxToggles - 1 calls of toggleLike that the store
\* refused: one more toggleLike, MaxPlaylistCalls calls of the playlist
\* handlers and MaxRefreshes calls of refreshData follow in any order, each
\* free to start while the others are suspended
InitPlaylists ==
    /\ songsTable = Catalog(2, 0)
    /\ historyTable = <<HistoryRow("u1", 1, 500)>>
    /\ likedTable = {LikedRow("u1", 2)}
    /\ user = "u1"
    /\ playlistsTable = <<PlaylistRow(1, "u1", "P", <<1>>)>>
    /\ personalizedSongs = <<>>
    /\ ret = NoCall
    /\ likedSongs = userLikedSongsOf(SelectLiked(Store, user, NoFail))
    /\ songs = SortedSongs(SelectSongsByViews(songsTable), userLikedSongsOf(SelectLiked(Store, user, NoFail)))
    /\ playlists = ConvertedPlaylists(user, userLikedSongsOf(SelectLiked(Store, user, NoFail)))
    /\ lastPlayedSong = None
    /\ recentlyPlayedSongs = <<>>
    /\ loading = FALSE
    /\ currentSongStartTime = None
    /\ currentSongRef = None
    /\ usersTable = [u \in {"u1"} |-> [last_song_file_id |-> None]]
    /\ now = 0
    /\ calls = {}
    /\ started = MaxToggles - 1
    /\ refreshed = 0
    /\ toggled = MaxToggles - 1
    /\ handled = 0
    /\ sentMinutes = [t \in TrackIds |-> 0]
    /\ currentTime = [t \in TrackIds |-> 0]

NextPlaylists ==
    \/ RefreshDataQuiet
    \/ FetchSongsReadsLiked \/ FetchSongsSetsSongs \/ FetchSongsReturns
    \/ FetchPlaylistsReturns
    \/ FetchRecentlyPlayedReadsLiked \/ FetchRecentlyPlayedReturns
    \/ FetchPersonalizedSongsResumes
    \/ CreatePlaylistCall \/ CreatePlaylistReturns
    \/ DeletePlaylistCall \/ DeletePlaylistReturns
    \/ RenamePlaylistCall \/ RenamePlaylistReturns
    \/ AddSongToPlaylistCall \/ AddSongToPlaylistReturns
    \/ RemoveSongFromPlaylistCall \/ RemoveSongFromPlaylistReturns
    \/ ToggleLikeCall \/ ToggleLikeCounts \/ ToggleLikeReturns \/ ToggleLikeCatches

SpecPlaylists == InitPlaylists /\ [][NextPlaylists]_vars

(***************************************************************************)
(* The load effect: it runs after the mount and after every change of the  *)
(* user, and starts the four fetches or resets the hook.                   *)
(***************************************************************************)
\* the effect is due: the component rendered with a new user
EffectDue == [id |-> 0, op |-> "loadData", user |-> user, pc |-> "render"]

\* the user logs out: the component renders with user = null; the effect of
\* the render before has run
Logout ==
    /\ user # NULL
    /\ EffectsRun
    /\ user' = NULL
    /\ calls' = calls \cup {[EffectDue EXCEPT !.user = NULL]}
    /\ UNCHANGED <<songsTable, historyTable, likedTable, personalizedSongs, ret, hookVars>>
    /\ UNCHANGED <<playlistsTable, usersTable, now, refreshed, toggled, handled, started, sentMinutes, currentTime>>

\* loadData of the effect: the reset without a user, else setLoading(true) and
\* the four fetches up to their first await, none of their reads failing
LoadData ==
    /\ \E c \in calls :
          /\ c.op = "loadData" /\ c.pc = "render"
          /\ IF c.user = NULL
             THEN /\ songs' = <<>>
                  /\ playlists' = <<>>
                  /\ likedSongs' = {}
                  /\ lastPlayedSong' = None
                  /\ loading' = FALSE
                  /\ calls' = calls \ {c}
                  /\ UNCHANGED <<personalizedSongs, ret>>
             ELSE /\ loading' = TRUE
                  /\ \E run \in {QuietRun} :
                        StrategyStarts(Ranking(started + 1, "fetchPersonalizedSongs", c.user,
                                               Inputs(<<>>, {}, None, None, run), <<Store>>),
                                       (calls \ {c}) \cup StartedFetches(started + 1, c.user, run.fail)
                                       \cup {[c EXCEPT !.id = started + 1, !.pc = "Promise.all"]})
                  /\ UNCHANGED <<songs, playlists, likedSongs, lastPlayedSong>>
    /\ started' = started + 1
    /\ UNCHANGED <<songsTable, historyTable, likedTable, user>>
    /\ UNCHANGED <<recentlyPlayedSongs, currentSongStartTime, currentSongRef>>
    /\ UNCHANGED <<playlistsTable, usersTable, now, refreshed, toggled, handled, sentMinutes, currentTime>>

\* loadData resumes after Promise.all, when its four fetches have ended:
\* setLoading(false)
LoadDataReturns ==
    /\ \E c \in calls :
          /\ c.op = "loadData" /\ c.pc = "Promise.all"
          /\ \A d \in calls : d.id = c.id => d = c
          /\ calls' = calls \ {c}
    /\ loading' = FALSE
    /\ UNCHANGED <<songsTable, historyTable, likedTable, user, personalizedSongs, ret>>
    /\ UNCHANGED <<songs, playlists, likedSongs, lastPlayedSong, recentlyPlayedSongs>>
    /\ UNCHANGED <<currentSongStartTime, currentSongRef>>
    /\ UNCHANGED <<playlistsTable, usersTable, now, refreshed, toggled, handled, started, sentMinutes, currentTime>>

\* the mount of the hook for the listener u1, the effect due; the listener has
\* a playlist holding track 1 and a last song
InitSession ==
    /\ songsTable = Catalog(3, 0)
    /\ historyTable = <<HistoryRow("u1", 1, 500)>>
    /\ likedTable \in LikedTables
    /\ user = "u1"
    /\ personalizedSongs = <<>>
    /\ ret = NoCall
    /\ HookInit
    /\ playlistsTable = <<PlaylistRow(1, "u1", "P", <<1>>)>>
    /\ usersTable = [u \in {"u1"} |-> [last_song_file_id |-> Some(1)]]
    /\ now = 0
    /\ calls = {EffectDue}
    /\ started = 0
    /\ refreshed = 0
    /\ toggled = 0
    /\ handled = 0
    /\ sentMinutes = [t \in TrackIds |-> 0]
    /\ currentTime = [t \in TrackIds |-> 0]

NextSession ==
    \/ Logout
    \/ LoadData
    \/ LoadDataReturns
    \/ RefreshDataQuiet
    \/ FetchSongsReadsLiked \/ FetchSongsSetsSongs \/ FetchSongsReturns
    \/ FetchPlaylistsReturns
    \/ FetchRecentlyPlayedReadsLiked \/ FetchRecentlyPlayedReturns
    \/ FetchPersonalizedSongsResumes

SpecSession == InitSession /\ [][NextSession]_vars

(***************************************************************************)
(* The state machine: a store is drawn, then one strategy makes one pass,   *)
(* the history strategy inside refreshData.                                *)
(***************************************************************************)
Init ==
    /\ \E n \in CatalogSizes, shift \in CatalogShifts, h \in Histories, l \in LikedTables :
          /\ songsTable = Catalog(n, shift)
          /\ historyTable = InCatalog(h, n)
          /\ likedTable = {r \in l : r.song_id <= n}
    /\ user = "u1"
    /\ personalizedSongs = <<>>
    /\ ret = NoCall
    /\ HookInit
    /\ EnvInit

Next ==
    \/ SmartCall \/ SmartResumes
    \/ ContextCall \/ ContextResumes
    \/ RefreshData
    \/ FetchSongsReadsLiked \/ FetchSongsSetsSongs \/ FetchSongsReturns
    \/ FetchPlaylistsReturns
    \/ FetchRecentlyPlayedReadsLiked \/ FetchRecentlyPlayedReturns
    \/ FetchPersonalizedSongsResumes

Spec == Init /\ [][Next]_vars

\* a loaded hook over a catalog of three tracks, the user with one track in
\* the history, after MaxToggles - 1 calls of toggleLike that the store
\* refused: one more toggleLike follows before, while or after the strategies
\* and refreshData
InitBusy ==
    /\ songsTable = Catalog(3, 0)
    /\ historyTable = <<HistoryRow("u1", 1, 500)>>
    /\ likedTable \in LikedTables
    /\ user = "u1"
    /\ personalizedSongs = <<>>
    /\ ret = NoCall
    /\ likedSongs = userLikedSongsOf(SelectLiked(Store, user, NoFail))
    /\ songs = SortedSongs(SelectSongsByViews(songsTable), userLikedSongsOf(SelectLiked(Store, user, NoFail)))
    /\ playlists = <<>>
    /\ lastPlayedSong = None
    /\ recentlyPlayedSongs = <<>>
    /\ loading = FALSE
    /\ currentSongStartTime = None
    /\ currentSongRef = None
    /\ playlistsTable = <<>>
    /\ usersTable = [u \in {"u1"} |-> [last_song_file_id |-> None]]
    /\ now = 0
    /\ calls = {}
    /\ started = MaxToggles - 1
    /\ refreshed = 0
    /\ toggled = MaxToggles - 1
    /\ handled = 0
    /\ sentMinutes = [t \in TrackIds |-> 0]
    /\ currentTime = [t \in TrackIds |-> 0]

\* the strategies and the fetches while toggleLike changes the store between
\* their reads
NextBusy ==
    \/ Next
    \/ ToggleLikeCall \/ ToggleLikeCounts \/ ToggleLikeReturns \/ ToggleLikeCatches

SpecBusy == InitBusy /\ [][NextBusy]_vars

(***************************************************************************)
(* A second store for the history strategy: a catalog with more distinct   *)
(* tags and artists than the strategy keeps, and every history over its    *)
(* first tracks.                                                           *)
(***************************************************************************)
TagPool ==
    << [artist |-> <<"A","n","n">>, language |-> "en", tags |-> << <<"a">>, <<"b">> >>, likes |-> 10, views |-> 100],
       [artist |-> <<"B","o","b">>, language |-> "en", tags |-> << <<"c">>, <<"A">> >>, likes |-> 5, views |-> 50],
       [artist |-> <<"a","n","n"," ">>, language |-> "es", tags |-> << <<"d">>, <<"e">> >>, likes |-> 1, views |-> 5],
       [artist |-> <<"C","y","d">>, language |-> "en", tags |-> << <<"f">>, <<"b"," ">> >>, likes |-> 0, views |-> 0],
       [artist |-> <<"D","e","e">>, language |-> "es", tags |-> << <<"g">>, <<"c">> >>, likes |-> 5, views |-> 100],
       [artist |-> <<"E","v","e">>, language |-> "fr", tags |-> << <<"e">>, <<"f">>, <<"g">> >>, likes |-> 0, views |-> 50],
       [artist |-> <<"B","O","B">>, language |-> "en", tags |-> << <<"d">> >>, likes |-> 1, views |-> 50],
       [artist |-> <<"F","a","y">>, language |-> "en", tags |-> << <<"a">>, <<"h">> >>, likes |-> 0, views |-> 5] >>

\* the songs table of the tag catalog: the first MaxTagTracks + 2 rows of a
\* cyclic walk of TagPool
TagCatalog ==
    [i \in 1..(MaxTagTracks + 2) |-> DatabaseSong(i, TagPool[((i - 1) % Len(TagPool)) + 1])]

\* the minutes of track i in a history: descending with the id, or scattered
TagMinutes(i, scattered) == IF scattered THEN 100 * (((i * 3) % 7) + 1) ELSE 100 * (20 - i)

\* the history with one row for each track of ids, in id order
TagHistory(ids, scattered) ==
    SeqMap(SeqFilter([i \in 1..MaxTagTracks |-> i], LAMBDA i : i \in ids),
           LAMBDA i : HistoryRow("u1", i, TagMinutes(i, scattered)))

InitTags ==
    /\ songsTable = TagCatalog
    /\ \E ids \in SUBSET (1..MaxTagTracks), scattered \in BOOLEAN :
          historyTable = TagHistory(ids, scattered)
    /\ likedTable = {LikedRow("u1", MaxTagTracks + 1)}
    /\ user = "u1"
    /\ personalizedSongs = <<>>
    /\ ret = NoCall
    /\ HookInit
    /\ EnvInit

NextTags ==
    \/ RefreshData
    \/ FetchSongsReadsLiked \/ FetchSongsSetsSongs \/ FetchSongsReturns
    \/ FetchPlaylistsReturns
    \/ FetchRecentlyPlayedReadsLiked \/ FetchRecentlyPlayedReturns
    \/ FetchPersonalizedSongsResumes

SpecTags == InitTags /\ [][NextTags]_vars

(***************************************************************************)
(* Properties.                                                             *)
(***************************************************************************)
IsSmart == ret.op = "getSmartPersonalizedSongs"
IsContext == ret.op = "getPersonalizedSongs"
IsFetch == ret.op = "fetchPersonalizedSongs"

\* the store as the last call's read of a table found it (the store now when
\* the call did not read the table)
ReadSnap(table) ==
    IF \E i \in DOMAIN ret.reads : ret.reads[i] = table
    THEN ret.snaps[CHOOSE i \in DOMAIN ret.reads : ret.reads[i] = table]
    ELSE Store

\* the catalog the last call read
SongsRead == ReadSnap("songs").songs

\* the last call returned a track as not liked that the listener liked when
\* the call read the catalog: a toggleLike removed the row between the reads
StaleLikeReturned ==
    /\ ret.op \in StrategyOps
    /\ ret.returned
    /\ \E i \in DOMAIN ret.value :
          /\ ~ret.value[i].isLiked
          /\ LikedRow(ret.userId, ret.value[i].file_id) \in ReadSnap("songs").liked
          /\ LikedRow(ret.userId, ret.value[i].file_id) \notin ReadSnap("liked_songs").liked

\* no call returns a track with the likes of one moment and the liked flag of
\* another (violated in SpecBusy, where toggleLike runs between the reads)
ReadsAgree == ~StaleLikeReturned

\* the rows that belonged to the listener of the last call when it read them
UserHistory == SeqFilter(ReadSnap("history").history, LAMBDA r : r.user_id = ret.userId)
UserLiked == {r.song_id : r \in {l \in ReadSnap("liked_songs").liked : l.user_id = ret.userId}}
CatalogIds == {SongsRead[i].file_id : i \in DOMAIN SongsRead}

\* the last call ran its ranking: no read failed and its signal was not empty
RankingPass ==
    /\ ret.fail = NoFail
    /\ \/ IsSmart /\ ret.listenedSongsInBatch # <<>>
       \/ IsContext
       \/ IsFetch /\ UserHistory # <<>>

\* C1: the list of the session strategy holds no track whose id is in
\* excludeSongs; the list of the contextual strategy holds neither the current
\* track nor a track whose id is in listenedSongs.
C1_ExcludedAbsent ==
    /\ IsSmart => \A i \in DOMAIN ret.value : ret.value[i].id \notin ret.excludeSongs
    /\ IsContext =>
          \A i \in DOMAIN ret.value :
             /\ ret.value[i].file_id # ret.currentSong[1].file_id
             /\ ret.listenedSongs # None => ret.value[i].id \notin ret.listenedSongs[1]

\* a contextual call whose current track and listened ids are in the catalog
\* returned other tracks
C1_Witness ==
    /\ IsContext
    /\ ret.currentSong[1].file_id \in CatalogIds
    /\ ret.listenedSongs # None
    /\ \E id \in CatalogIds : ToString(id) \in ret.listenedSongs[1]
    /\ ret.value # <<>>

\* C2: the returned list is the first min(N, eligible) candidates by descending
\* score of the pass (N = 15 session, 10 contextual, 30 history): it is in
\* non-increasing score order, every returned track scores at least as high as
\* every eligible track left out, and nothing is padded.
C2_TopNByScore ==
    RankingPass =>
        LET scored == ret.scoredSongs
            out == ret.value
            n == IF IsSmart THEN 15 ELSE IF IsContext THEN 10 ELSE 30
            ScoreOf(song) == scored[CHOOSE j \in DOMAIN scored : scored[j].song = song].score
        IN  /\ Len(scored) = Len(ret.availableSongs)
            /\ \A j \in DOMAIN scored : scored[j].song.file_id = ret.availableSongs[j].file_id
            /\ Len(out) = IF Len(scored) < n THEN Len(scored) ELSE n
            /\ \A i \in DOMAIN out : \E j \in DOMAIN scored : scored[j].song = out[i]
            /\ \A i, j \in DOMAIN out : i < j => ScoreOf(out[i]) >= ScoreOf(out[j])
            /\ \A j \in DOMAIN scored :
                  scored[j].song \notin Range(out) =>
                      \A i \in DOMAIN out : ScoreOf(out[i]) >= scored[j].score
            /\ IsFetch => personalizedSongs = out

\* a history pass that had more than 30 candidates of different scores
C2_Witness ==
    /\ RankingPass
    /\ IsFetch
    /\ Len(ret.scoredSongs) > 30
    /\ Len(personalizedSongs) = 30
    /\ \E i, j \in DOMAIN ret.scoredSongs :
          i < j /\ ret.scoredSongs[i].score < ret.scoredSongs[j].score

\* C3: the output of one pass of any strategy, the trending fallback included,
\* holds no track identifier twice.
C3_NoDuplicates ==
    /\ \A i, j \in DOMAIN ret.value :
          i # j => /\ ret.value[i].file_id # ret.value[j].file_id
                   /\ ret.value[i].id # ret.value[j].id
    /\ \A i, j \in DOMAIN personalizedSongs :
          i # j => personalizedSongs[i].file_id # personalizedSongs[j].file_id

\* a contextual pass with fewer candidates than its output size returned several
C3_Witness ==
    /\ RankingPass
    /\ IsContext
    /\ Len(ret.value) > 1
    /\ Len(ret.value) < 10

\* C4: with a non-empty history, the history strategy never puts into
\* personalizedSongs a track that has an entry in the listener's history.
C4_HistoryExcluded ==
    (IsFetch /\ UserHistory # <<>>) =>
        \A i \in DOMAIN personalizedSongs :
            \A h \in DOMAIN UserHistory :
                UserHistory[h].song_id # personalizedSongs[i].file_id

\* the ids of the trending list of the store
TrendingIds == SeqMap(SelectTrending(ReadSnap("songs"), NoFail).data[1], LAMBDA song : song.file_id)

\* C5: when a read of a strategy fails, the strategy yields an empty list (the
\* history strategy: an empty list or the trending fallback), never a list
\* scored from the reads that did succeed.
C5_FailureYieldsEmpty ==
    (ret.op # "none" /\ ret.fail.read \in Range(ret.reads)) =>
        /\ ret.scoredSongs = <<>>
        /\ \/ ret.value = <<>> /\ personalizedSongs = <<>>
           \/ IsFetch /\ SeqMap(personalizedSongs, LAMBDA song : song.file_id) = TrendingIds

\* C6: with an empty history the history strategy produces the catalog's tracks
\* by view count descending, cut to the top 20, each flagged liked exactly when
\* its id is in the listener's liked set.
C6_TrendingFallback ==
    (IsFetch /\ UserHistory = <<>> /\ ret.fail = NoFail) =>
        LET out == personalizedSongs
            outIds == {out[i].file_id : i \in DOMAIN out}
        IN  /\ Len(out) = IF Len(SongsRead) < 20 THEN Len(SongsRead) ELSE 20
            /\ \A i \in DOMAIN out :
                  \E k \in DOMAIN SongsRead :
                     /\ SongsRead[k].file_id = out[i].file_id
                     /\ SongsRead[k].views = out[i].views
                     /\ SongsRead[k].likes = out[i].likes
                     /\ SongsRead[k].tags = out[i].tags
                     /\ SongsRead[k].artist = out[i].artist
                     /\ SongsRead[k].language = out[i].language
            /\ \A i, j \in DOMAIN out : i < j => out[i].views >= out[j].views
            /\ \A i, j \in DOMAIN out : i # j => out[i].file_id # out[j].file_id
            /\ \A k \in DOMAIN SongsRead :
                  SongsRead[k].file_id \notin outIds =>
                      \A i \in DOMAIN out : out[i].views >= SongsRead[k].views
            /\ \A i \in DOMAIN out : out[i].isLiked = (out[i].file_id \in UserLiked)

\* the fallback cut a catalog of more than 20 tracks, some liked and some not
C6_Witness ==
    /\ IsFetch /\ UserHistory = <<>> /\ ret.fail = NoFail
    /\ Len(SongsRead) > 20
    /\ Len(personalizedSongs) = 20
    /\ \E i, j \in DOMAIN personalizedSongs :
          personalizedSongs[i].isLiked /\ ~personalizedSongs[j].isLiked

\* C7: the session strategy called with an empty batch returns the empty list
\* and reads nothing from the store.
C7_EmptySessionEmpty ==
    (IsSmart /\ ret.listenedSongsInBatch = <<>>) => (ret.value = <<>> /\ ret.reads = <<>>)

\* the session strategy was called with an empty batch over a catalog it could
\* have ranked
C7_Witness ==
    /\ IsSmart /\ ret.listenedSongsInBatch = <<>>
    /\ ret.fail = NoFail
    /\ ret.excludeSongs = {}
    /\ SongsRead # <<>>

\* a song with the case of its tags changed to lower case
LowerTags(song) == [song EXCEPT !.tags = SeqMap(@, ToLowerCase)]

\* C8: in every strategy the number of matching tags counted for a candidate
\* stays the same when the tags of the candidate and of the preference source
\* change their letter case.
C8_CaseInsensitiveTags ==
    \A k \in DOMAIN ret.scoredSongs :
        LET counted == ret.scoredSongs[k].matchingTags
            candidate == LowerTags(ret.availableSongs[k])
        IN  /\ IsSmart =>
                  counted = SmartMatchingTags(candidate,
                               SmartPreferredTags(SeqMap(ret.listenedSongsInBatch, LowerTags)))
            /\ IsContext =>
                  counted = ContextMatchingTags(candidate, LowerTags(ret.currentSong[1]))
            /\ IsFetch =>
                  counted = HistoryMatchingTags(candidate,
                               CommonTags(SeqMap(TopSongs(SelectTopHistory(ReadSnap("history"), ret.userId, NoFail).data[1]),
                                                 LowerTags)))

\* the minutes of all the listener's history rows for one track
RECURSIVE SumMinutes(_, _)
SumMinutes(rows, song_id) ==
    IF rows = <<>> THEN 0
    ELSE (IF Head(rows).song_id = song_id THEN Head(rows).minutes_listened ELSE 0)
         + SumMinutes(Tail(rows), song_id)

\* C9: in the contextual strategy the minutes used for a track's history term
\* are the sum of the durations of all the history rows of that track.
C9_MinutesSummed ==
    (IsContext /\ ret.fail = NoFail) =>
        \A k \in DOMAIN ret.scoredSongs :
            ret.scoredSongs[k].listenedMinutes
                = SumMinutes(UserHistory, ret.scoredSongs[k].song.file_id)

\* C10: in the contextual strategy the history term of a candidate is
\* min(2 x minutes, 20) points: 0 without history, never above 20, and not
\* smaller for a candidate with more minutes.  (minutes are counted in
\* hundredths and points in thousandths, so 2 points a minute is 20 a hundredth)
C10_HistoryBoostCapped ==
    IsContext =>
        \A k \in DOMAIN ret.scoredSongs :
            LET e == ret.scoredSongs[k]
            IN  /\ e.historyBoost >= 0
                /\ e.historyBoost <= 20000
                /\ e.historyBoost = IF e.listenedMinutes >= 1000 THEN 20000
                                    ELSE 20 * e.listenedMinutes
                /\ (\A h \in DOMAIN UserHistory : UserHistory[h].song_id # e.song.file_id)
                      => e.historyBoost = 0
                /\ \A j \in DOMAIN ret.scoredSongs :
                      ret.scoredSongs[j].listenedMinutes <= e.listenedMinutes
                          => ret.scoredSongs[j].historyBoost <= e.historyBoost

\* a contextual pass scored a track listened for more than 10 minutes, one
\* listened for less, and one never listened to
C10_Witness ==
    /\ IsContext /\ ret.fail = NoFail
    /\ \E i, j, k \in DOMAIN ret.scoredSongs :
          /\ ret.scoredSongs[i].listenedMinutes > 1000 /\ ret.scoredSongs[i].historyBoost = 20000
          /\ ret.scoredSongs[j].listenedMinutes \in 1..999 /\ ret.scoredSongs[j].historyBoost > 0
          /\ ret.scoredSongs[k].listenedMinutes = 0 /\ ret.scoredSongs[k].historyBoost = 0

\* the number of times key occurs in a walk
Occurrences(walk, key) == Cardinality({i \in DOMAIN walk : walk[i] = key})

\* the place at which key is first met in a walk
FirstMet(walk, key) == CHOOSE i \in DOMAIN walk : walk[i] = key /\ \A j \in 1..(i - 1) : walk[j] # key

\* key t is preferred over key u: it occurs more often, or as often and is met first
Preferred(walk, t, u) ==
    \/ Occurrences(walk, t) > Occurrences(walk, u)
    \/ Occurrences(walk, t) = Occurrences(walk, u) /\ FirstMet(walk, t) < FirstMet(walk, u)

\* chosen holds the n most preferred keys of the walk, the most preferred first
MostPreferred(walk, n, chosen) ==
    /\ Len(chosen) = IF Cardinality(Range(walk)) < n THEN Cardinality(Range(walk)) ELSE n
    /\ Range(chosen) \subseteq Range(walk)
    /\ \A i, j \in DOMAIN chosen : i < j => Preferred(walk, chosen[i], chosen[j])
    /\ \A u \in Range(walk) \ Range(chosen) :
          \A i \in DOMAIN chosen : Preferred(walk, chosen[i], u)

\* the history rows the history strategy reads, and their songs
TopHistoryRows == SelectTopHistory(ReadSnap("history"), ret.userId, NoFail).data[1]
TopHistorySongs == TopSongs(TopHistoryRows)

\* C11: in the history strategy the preferred tags are the 5 normalized tags
\* that occur most often in the top history tracks and the preferred artists
\* the 3 artists that occur most often; of two that occur equally often, the
\* one met first when the tracks are walked by minutes descending (and the
\* tags of a track in order) is preferred.
C11_MostFrequentFirstMet ==
    (IsFetch /\ RankingPass) =>
        LET tagWalk == NormalizedTags(TopHistorySongs)
            artistWalk == [i \in DOMAIN TopHistorySongs |-> Trim(ToLowerCase(TopHistorySongs[i].artist))]
        IN  /\ \A i, j \in DOMAIN TopHistoryRows :
                  i < j => TopHistoryRows[i].minutes_listened >= TopHistoryRows[j].minutes_listened
            /\ MostPreferred(tagWalk, 5, CommonTags(TopHistorySongs))
            /\ MostPreferred(artistWalk, 3, CommonArtists(TopHistorySongs))
            /\ \A k \in DOMAIN ret.scoredSongs :
                  ret.scoredSongs[k].matchingTags =
                      Cardinality({i \in DOMAIN ret.availableSongs[k].tags :
                          Trim(ToLowerCase(ret.availableSongs[k].tags[i]))
                              \in Range(CommonTags(TopHistorySongs))})

\* a history pass whose top tracks hold more than 5 tags and more than 3
\* artists, with the last tag and artist kept occurring as often as one left out
C11_Witness ==
    /\ IsFetch /\ RankingPass
    /\ LET tagWalk == NormalizedTags(TopHistorySongs)
           artistWalk == [i \in DOMAIN TopHistorySongs |-> Trim(ToLowerCase(TopHistorySongs[i].artist))]
           tags == CommonTags(TopHistorySongs)
           artists == CommonArtists(TopHistorySongs)
       IN  /\ Cardinality(Range(tagWalk)) > 5
           /\ Cardinality(Range(artistWalk)) > 3
           /\ \E u \in Range(tagWalk) \ Range(tags) :
                 Occurrences(tagWalk, u) = Occurrences(tagWalk, tags[Len(tags)])
           /\ \E u \in Range(artistWalk) \ Range(artists) :
                 Occurrences(artistWalk, u) = Occurrences(artistWalk, artists[Len(artists)])
           /\ \E k \in DOMAIN ret.scoredSongs : ret.scoredSongs[k].matchingTags > 0

\* the contextual score of a scored candidate before the jitter, from the
\* terms the pass recorded
BeforeJitter(e) ==
    e.matchingTags * 15000
    + (IF e.song.artist = ret.currentSong[1].artist THEN 25000 ELSE 0)
    + (IF e.song.language = ret.currentSong[1].language THEN 10000 ELSE 0)
    + e.historyBoost
    + LogOnePlus(e.song.likes) * 2 + LogOnePlus(e.song.views)
    + (IF e.song.isLiked THEN 8000 ELSE 0)

\* the place of the track file_id in the returned list, 0 when it is not in it
PlaceInValue(file_id) ==
    IF \E i \in DOMAIN ret.value : ret.value[i].file_id = file_id
    THEN CHOOSE i \in DOMAIN ret.value : ret.value[i].file_id = file_id
    ELSE 0

\* the store and the call of the worked scenario: catalog A, B, C, the
\* listener has 5 minutes on A, the current track is B
ScenarioCall ==
    /\ IsContext
    /\ SongsRead = Catalog(3, 0)
    /\ UserHistory = <<HistoryRow(ret.userId, 1, 500)>>
    /\ ret.currentSong = Some(SongB)
    /\ ret.listenedSongs \in {None, Some({})}

\* C12: in the contextual strategy the jitter is at least 0 and below 3
\* points, and for two candidates X and Y of one pass with X's score before
\* the jitter at least 3 points above Y's, X has the higher score, and when Y
\* is returned X is returned too, at an earlier place; in the scenario with A
\* (pop, rock; likes 10; views 100), B (rock), C (jazz; likes 1; views 5),
\* 5 minutes on A and B current, a non-empty list is A then C.
C12_JitterKeepsSeparatedOrder ==
    /\ IsContext =>
          \A x \in DOMAIN ret.scoredSongs :
             LET X == ret.scoredSongs[x]
             IN  /\ X.score - BeforeJitter(X) >= 0
                 /\ X.score - BeforeJitter(X) < 3000
                 /\ \A y \in DOMAIN ret.scoredSongs :
                       LET Y == ret.scoredSongs[y]
                       IN  BeforeJitter(X) - BeforeJitter(Y) >= 3000 =>
                              /\ X.score > Y.score
                              /\ PlaceInValue(Y.song.file_id) # 0 =>
                                    /\ PlaceInValue(X.song.file_id) # 0
                                    /\ PlaceInValue(X.song.file_id) < PlaceInValue(Y.song.file_id)
    /\ (ScenarioCall /\ ret.value # <<>>) =>
          [i \in DOMAIN ret.value |-> ret.value[i].file_id] = <<1, 3>>

\* a pass of the scenario in which A drew the smallest jitter and C the
\* largest, and a pass over the long catalog that cut away a candidate lying
\* 3 points or more below a returned one
C12_Witness ==
    \/ /\ ScenarioCall /\ ret.fail = NoFail
       /\ ret.rnd = <<0, 999>>
       /\ Len(ret.scoredSongs) = 2
       /\ ret.scoredSongs[1].score = BeforeJitter(ret.scoredSongs[1])
       /\ ret.scoredSongs[2].score = BeforeJitter(ret.scoredSongs[2]) + 2997
       /\ [i \in DOMAIN ret.value |-> ret.value[i].file_id] = <<1, 3>>
    \/ /\ IsContext /\ ret.fail = NoFail /\ Len(ret.scoredSongs) > 10
       /\ \E x, y \in DOMAIN ret.scoredSongs :
             /\ BeforeJitter(ret.scoredSongs[x]) - BeforeJitter(ret.scoredSongs[y]) >= 3000
             /\ BeforeJitter(ret.scoredSongs[x]) - BeforeJitter(ret.scoredSongs[y]) < 6000
             /\ ret.scoredSongs[x].score = BeforeJitter(ret.scoredSongs[x])
             /\ ret.scoredSongs[y].score = BeforeJitter(ret.scoredSongs[y]) + 2997
             /\ PlaceInValue(ret.scoredSongs[x].song.file_id) # 0
             /\ PlaceInValue(ret.scoredSongs[y].song.file_id) = 0

\* C13: for every track, the minutes sent to upsert_history_minutes are no
\* more than the time the track was the current track (a hundredth of a
\* minute is 600 milliseconds).
C13_CreditedAtMostOnce ==
    \A t \in TrackIds : sentMinutes[t] * 600 <= currentTime[t]

\* C14: when no toggleLike call is in flight, a song is in the local likedSongs
\* set exactly when the store holds the liked_songs row of the user and the
\* song, and the isLiked flag of the song in the local songs list says the same.
C14_LikesAgreeWhenQuiet ==
    calls = {} =>
        \A id \in TrackIds :
            /\ id \in likedSongs <=> LikedRow(user, id) \in likedTable
            /\ \A i \in DOMAIN songs :
                  songs[i].file_id = id => (songs[i].isLiked <=> id \in likedSongs)

C16_NothingLeftAfterLogout ==
    (user = NULL /\ EffectsRun) =>
        /\ songs = <<>>
        /\ playlists = <<>>
        /\ recentlyPlayedSongs = <<>>
        /\ personalizedSongs = <<>>
        /\ SeqFilter(songs, LAMBDA song : song.isLiked) = <<>>
        /\ likedSongs = {}
        /\ lastPlayedSong = None

====
